---- MODULE Spec2Model ----
(***************************************************************************)
(* A model of scripts/process_legal_documents.py: the map/reduce pipeline  *)
(* of LegalDocumentProcessor.process_directory (one process_file task per  *)
(* discovered file, collected by one coordinating thread, then the reduce  *)
(* stage) and the pure functions the reduce stage calls.                   *)
(*                                                                         *)
(* Python values: a dict is a TLA+ function whose DOMAIN is its key set    *)
(* (d.get(k, default) is Get); an insertion-ordered dict that the code     *)
(* iterates is a sequence of [id, info] entries with distinct ids; a       *)
(* document ID and a type are strings; a date string is a sequence of      *)
(* digit values compared lexicographically; a title is a sequence of       *)
(* whitespace-separated words.                                             *)
(***************************************************************************)
EXTENDS Integers, Sequences, FiniteSets, TLC

VARIABLES
    \* ---- process_directory ----
    document_files,   \* the discovered files, in discovery order
    task,             \* per file: the position of its process_file future
    written,          \* per artifact path: the tasks that wrote it, in order
    documents,        \* the coordinator's dict doc_id -> doc_info
    stored,           \* the files whose record the coordinator assigned
    pc,               \* the coordinator's position in process_directory
    outputs,          \* the reduce stage's artifacts that were emitted
    log,              \* what was logged, and which reduce functions were called
    \* ---- model_legal_hierarchy applied to an arbitrary mapping ----
    hdocs,            \* the argument: an ordered dict of records
    hgraph,           \* the returned graph
    hpc,              \* "input" before the call, "built" after it
    \* ---- one call of a pure function of the module ----
    call,             \* the function called, "idle" when none is
    arg,              \* its argument
    ret               \* <<>> before the call returns, <<value>> after

pvars == <<document_files, task, written, documents, stored, pc, outputs, log>>
hvars == <<hdocs, hgraph, hpc>>
fvars == <<call, arg, ret>>
vars == <<document_files, task, written, documents, stored, pc, outputs, log,
          hdocs, hgraph, hpc, call, arg, ret>>

\* ------------------------------------------------------------------------
\* Python helpers
\* ------------------------------------------------------------------------

\* dict.get(k, d)
Get(r, k, d) == IF k \in DOMAIN r THEN r[k] ELSE d

\* None, for a field whose other values are strings (sequences of codes >= 0)
PyNone == <<-1>>

\* the empty dict / no attributes
EmptyDict == <<>>

\* the position of key k in an ordered dict, 0 when absent
RECURSIVE IndexOf(_, _, _)
IndexOf(d, k, i) ==
    IF i > Len(d) THEN 0
    ELSE IF d[i].id = k THEN i
    ELSE IndexOf(d, k, i + 1)

\* d[k] = v on an insertion-ordered dict: an existing key keeps its place
DictSet(d, k, v) ==
    LET i == IndexOf(d, k, 1) IN
    IF i = 0 THEN Append(d, [id |-> k, info |-> v])
    ELSE [d EXCEPT ![i] = [id |-> k, info |-> v]]

Keys(d) == {d[i].id : i \in 1..Len(d)}

\* ------------------------------------------------------------------------
\* Text, and the module re as the code uses it
\* ------------------------------------------------------------------------

\* A text is a sequence of characters, a character a string of length one
\* (a letter outside ASCII is written by its name).
Digit == {"0", "1", "2", "3", "4", "5", "6", "7", "8", "9"}

UpperSeq ==
    <<"A", "B", "C", "D", "E", "F", "G", "H", "I", "J", "K", "L", "M",
      "N", "O", "P", "Q", "R", "S", "T", "U", "V", "W", "X", "Y", "Z">>

LowerSeq ==
    <<"a", "b", "c", "d", "e", "f", "g", "h", "i", "j", "k", "l", "m",
      "n", "o", "p", "q", "r", "s", "t", "u", "v", "w", "x", "y", "z">>

Upper == {UpperSeq[i] : i \in 1..Len(UpperSeq)}

Lower == {LowerSeq[i] : i \in 1..Len(LowerSeq)}

\* the letter s with caron of "tše"
SCaron == "s-caron"

\* \w and \s
Word == Upper \cup Lower \cup Digit \cup {"_", SCaron}

Space == {" ", "\t", "\n", "\r"}

\* the bullet of the list_item pattern
Bullet == "bullet"

\* the punctuation the patterns and the texts use
Punct ==
    {".", ",", ";", ":", "'", "\"", "&", "(", ")", "[", "]", "{", "}", "#", "*", "-",
     "|", Bullet}

\* every character of a text
Alphabet == Word \cup Space \cup Punct

\* str.lower() and str.upper() on one character
ToLower(c) ==
    IF c \in Upper THEN LowerSeq[CHOOSE i \in 1..Len(UpperSeq) : UpperSeq[i] = c] ELSE c

ToUpper(c) ==
    IF c \in Lower THEN UpperSeq[CHOOSE i \in 1..Len(LowerSeq) : LowerSeq[i] = c] ELSE c

LowerCase(text) == [i \in 1..Len(text) |-> ToLower(text[i])]

\* the Python str of a text
RECURSIVE ToStr(_)
ToStr(text) == IF text = <<>> THEN "" ELSE Head(text) \o ToStr(Tail(text))

\* A pattern is a tree: a character set, a concatenation, an alternation, a
\* greedy repetition, a capturing group, or an anchor.
Set(S) == [t |-> "set", s |-> S]

Lit(c) == [t |-> "set", s |-> {c}]

Cat(rs) == [t |-> "cat", rs |-> rs]

Alt(rs) == [t |-> "alt", rs |-> rs]

Star(r) == [t |-> "star", r |-> r]

Plus(r) == Cat(<<r, Star(r)>>)

Opt(r) == Alt(<<r, Cat(<<>>)>>)

Times(r, n) == Cat([i \in 1..n |-> r])

Group(n, r) == [t |-> "group", n |-> n, r |-> r]

Str(chars) == Cat([i \in 1..Len(chars) |-> Lit(chars[i])])

\* ^ and $ without re.MULTILINE
Bol == [t |-> "bol"]

Eol == [t |-> "eol"]

\* re.IGNORECASE: every character set also holds the other case of its letters
RECURSIVE IgnoreCase(_)
IgnoreCase(r) ==
    CASE r.t = "set" ->
            Set(r.s \cup {ToLower(c) : c \in r.s} \cup {ToUpper(c) : c \in r.s})
      [] r.t \in {"cat", "alt"} ->
            [t |-> r.t, rs |-> [i \in 1..Len(r.rs) |-> IgnoreCase(r.rs[i])]]
      [] r.t = "star" -> Star(IgnoreCase(r.r))
      [] r.t = "group" -> Group(r.n, IgnoreCase(r.r))
      [] OTHER -> r

\* The backtracking matcher.  MatchAt gives the ways pattern r matches text s
\* from position i with the groups g bound so far, in the order in which the
\* matcher tries them: each is the position e after the match and the groups
\* bound by then.  The first of them is the match Python reports.
RECURSIVE MatchAt(_, _, _, _)
RECURSIVE Step(_, _, _, _)
RECURSIVE CatFrom(_, _, _, _)
RECURSIVE AltFrom(_, _, _, _, _)
RECURSIVE Bind(_, _, _, _)

\* r continued from each of the states, in order
Step(r, s, states, k) ==
    IF k > Len(states) THEN <<>>
    ELSE MatchAt(r, s, states[k].e, states[k].g) \o Step(r, s, states, k + 1)

CatFrom(rs, j, s, states) ==
    IF j > Len(rs) \/ states = <<>> THEN states
    ELSE CatFrom(rs, j + 1, s, Step(rs[j], s, states, 1))

AltFrom(rs, j, s, i, g) ==
    IF j > Len(rs) THEN <<>>
    ELSE MatchAt(rs[j], s, i, g) \o AltFrom(rs, j + 1, s, i, g)

\* group n spans from i to the end of each match
Bind(n, i, states, k) ==
    IF k > Len(states) THEN <<>>
    ELSE <<[e |-> states[k].e, g |-> (n :> <<i, states[k].e>>) @@ states[k].g]>>
            \o Bind(n, i, states, k + 1)

MatchAt(r, s, i, g) ==
    CASE r.t = "set" ->
            IF i <= Len(s) /\ s[i] \in r.s THEN <<[e |-> i + 1, g |-> g]>> ELSE <<>>
      [] r.t = "cat" -> CatFrom(r.rs, 1, s, <<[e |-> i, g |-> g]>>)
      [] r.t = "alt" -> AltFrom(r.rs, 1, s, i, g)
      [] r.t = "star" ->
            LET once == SelectSeq(MatchAt(r.r, s, i, g), LAMBDA m : m.e > i)
            IN Step(r, s, once, 1) \o <<[e |-> i, g |-> g]>>
      [] r.t = "group" -> Bind(r.n, i, MatchAt(r.r, s, i, g), 1)
      [] r.t = "bol" -> IF i = 1 THEN <<[e |-> i, g |-> g]>> ELSE <<>>
      [] r.t = "eol" ->
            IF i = Len(s) + 1 \/ (i = Len(s) /\ s[i] = "\n")
            THEN <<[e |-> i, g |-> g]>> ELSE <<>>

\* re.match(r, s): <<>> for None, else <<the match>>; start and end are
\* 1-based, end is the position after the match
re_match(r, s) ==
    LET ms == MatchAt(r, s, 1, <<>>) IN
    IF ms = <<>> THEN <<>> ELSE <<[start |-> 1, end |-> ms[1].e, g |-> ms[1].g]>>

\* re.search(r, s) from position i on: the leftmost match
RECURSIVE re_search(_, _, _)
re_search(r, s, i) ==
    IF i > Len(s) + 1 THEN <<>>
    ELSE LET ms == MatchAt(r, s, i, <<>>) IN
         IF ms # <<>> THEN <<[start |-> i, end |-> ms[1].e, g |-> ms[1].g]>>
         ELSE re_search(r, s, i + 1)

\* re.finditer(r, s): the successive non-overlapping matches, left to right
RECURSIVE re_finditer(_, _, _)
re_finditer(r, s, i) ==
    LET m == re_search(r, s, i) IN
    IF m = <<>> THEN <<>>
    ELSE <<m[1]>> \o re_finditer(r, s, IF m[1].end > m[1].start THEN m[1].end
                                         ELSE m[1].end + 1)

\* match.group(n)
GroupText(s, m, n) == SubSeq(s, m.g[n][1], m.g[n][2] - 1)

\* ------------------------------------------------------------------------
\* networkx.DiGraph as the code uses it
\* ------------------------------------------------------------------------

EmptyGraph == [nodes |-> EmptyDict, edges |-> EmptyDict]

\* G.add_node(n, **attrs): a new node, or an update of an existing node's attributes
add_node(G, n, attrs) ==
    [G EXCEPT !.nodes = (n :> (attrs @@ Get(G.nodes, n, EmptyDict))) @@ G.nodes]

\* G.add_edge(u, v, **attrs): adds u and v (without attributes) when missing
add_edge(G, u, v, attrs) ==
    LET G1 == add_node(G, u, EmptyDict)
        G2 == add_node(G1, v, EmptyDict)
    IN [G2 EXCEPT !.edges =
            (<<u, v>> :> (attrs @@ Get(G2.edges, <<u, v>>, EmptyDict))) @@ G2.edges]

\* n in G
InGraph(G, n) == n \in DOMAIN G.nodes

\* ------------------------------------------------------------------------
\* model_legal_hierarchy
\* ------------------------------------------------------------------------

\* a mutant: an interprets edge is added for every reference, whether or
\* not its target is a node
RECURSIVE AddInterpretsEdgesUncheckedMutant(_, _, _, _)
AddInterpretsEdgesUncheckedMutant(G, doc_id, refs, i) ==
    IF i > Len(refs) THEN G
    ELSE AddInterpretsEdgesUncheckedMutant(
            add_edge(G, refs[i].target_document, doc_id, [relation |-> "interprets"]),
            doc_id, refs, i + 1)

\* the inner loop of the case branch: one interprets edge per reference
\* whose target is a node at that moment
RECURSIVE AddInterpretsEdges(_, _, _, _)
AddInterpretsEdges(G, doc_id, refs, i) ==
    IF i > Len(refs) THEN G
    ELSE LET t == refs[i].target_document IN
         AddInterpretsEdges(
            IF InGraph(G, t)
            THEN add_edge(G, t, doc_id, [relation |-> "interprets"])
            ELSE G,
            doc_id, refs, i + 1)

\* a mutant: the act branch also adds edges for the act's own references
VisitDocumentActCitesMutant(G, doc_id, doc_info) ==
    LET doc_type == Get(doc_info, "type", "unknown") IN
    IF doc_type = "act"
    THEN AddInterpretsEdges(
            add_edge(add_node(G, doc_id, [level |-> 1, type |-> "act"]),
                     "constitution", doc_id, EmptyDict),
            doc_id, Get(doc_info, "references", <<>>), 1)
    ELSE IF doc_type = "regulation"
    THEN IF /\ "parent_act" \in DOMAIN doc_info
            /\ doc_info.parent_act # ""
            /\ InGraph(G, doc_info.parent_act)
         THEN add_edge(add_node(G, doc_id, [level |-> 2, type |-> "regulation"]),
                       doc_info.parent_act, doc_id, EmptyDict)
         ELSE G
    ELSE IF doc_type = "case"
    THEN AddInterpretsEdges(add_node(G, doc_id, [level |-> 3, type |-> "case"]),
                            doc_id, Get(doc_info, "references", <<>>), 1)
    ELSE G

\* a mutant: a regulation whose parent is missing still becomes a node
VisitDocumentOrphanRegulationMutant(G, doc_id, doc_info) ==
    LET doc_type == Get(doc_info, "type", "unknown") IN
    IF doc_type = "act"
    THEN add_edge(add_node(G, doc_id, [level |-> 1, type |-> "act"]),
                  "constitution", doc_id, EmptyDict)
    ELSE IF doc_type = "regulation"
    THEN IF /\ "parent_act" \in DOMAIN doc_info
            /\ doc_info.parent_act # ""
            /\ InGraph(G, doc_info.parent_act)
         THEN add_edge(add_node(G, doc_id, [level |-> 2, type |-> "regulation"]),
                       doc_info.parent_act, doc_id, EmptyDict)
         ELSE add_node(G, doc_id, [level |-> 2, type |-> "regulation"])
    ELSE IF doc_type = "case"
    THEN AddInterpretsEdges(add_node(G, doc_id, [level |-> 3, type |-> "case"]),
                            doc_id, Get(doc_info, "references", <<>>), 1)
    ELSE G

\* one iteration of the loop over documents.items()
VisitDocument(G, doc_id, doc_info) ==
    LET doc_type == Get(doc_info, "type", "unknown") IN
    IF doc_type = "act"
    THEN add_edge(add_node(G, doc_id, [level |-> 1, type |-> "act"]),
                  "constitution", doc_id, EmptyDict)
    ELSE IF doc_type = "regulation"
    THEN IF /\ "parent_act" \in DOMAIN doc_info
            /\ doc_info.parent_act # ""
            /\ InGraph(G, doc_info.parent_act)
         THEN add_edge(add_node(G, doc_id, [level |-> 2, type |-> "regulation"]),
                       doc_info.parent_act, doc_id, EmptyDict)
         ELSE G
    ELSE IF doc_type = "case"
    THEN AddInterpretsEdges(add_node(G, doc_id, [level |-> 3, type |-> "case"]),
                            doc_id, Get(doc_info, "references", <<>>), 1)
    ELSE G

RECURSIVE HierarchyLoop(_, _, _)
HierarchyLoop(G, docs, i) ==
    IF i > Len(docs) THEN G
    ELSE HierarchyLoop(VisitDocument(G, docs[i].id, docs[i].info), docs, i + 1)

model_legal_hierarchy(docs) ==
    HierarchyLoop(
        add_node(EmptyGraph, "constitution", [level |-> 0, type |-> "constitution"]),
        docs, 1)

\* ------------------------------------------------------------------------
\* process_temporal_versioning
\* ------------------------------------------------------------------------

\* group(1).strip() of re.match(r'(.*?)(?:\s+Amendment)?$', title): the title
\* without one trailing word "Amendment" that follows whitespace
BaseTitle(title) ==
    IF Len(title) >= 2 /\ title[Len(title)] = "Amendment"
    THEN SubSeq(title, 1, Len(title) - 1)
    ELSE title

\* a < b on two date strings: lexicographic on the character codes
RECURSIVE StrLess(_, _, _)
StrLess(a, b, i) ==
    IF i > Len(b) THEN FALSE
    ELSE IF i > Len(a) THEN TRUE
    ELSE IF a[i] < b[i] THEN TRUE
    ELSE IF a[i] > b[i] THEN FALSE
    ELSE StrLess(a, b, i + 1)

\* the position in group dict g of key k, 0 when absent
RECURSIVE GroupIndex(_, _, _)
GroupIndex(g, k, i) ==
    IF i > Len(g) THEN 0
    ELSE IF g[i].key = k THEN i
    ELSE GroupIndex(g, k, i + 1)

VersionEntry(doc_id, doc_info) ==
    [doc_id |-> doc_id,
     date |-> Get(doc_info, "date", PyNone),
     version |-> Get(doc_info, "version", "unknown"),
     title |-> Get(doc_info, "title", PyNone)]

\* the first loop: act records appended to the list of their base title
RECURSIVE GroupVersions(_, _, _)
GroupVersions(g, docs, i) ==
    IF i > Len(docs) THEN g
    ELSE IF Get(docs[i].info, "type", "") # "act"
    THEN GroupVersions(g, docs, i + 1)
    ELSE LET base_id == BaseTitle(Get(docs[i].info, "title", <<>>))
             e == VersionEntry(docs[i].id, docs[i].info)
             j == GroupIndex(g, base_id, 1)
         IN GroupVersions(
              IF j = 0 THEN Append(g, [key |-> base_id, entries |-> <<e>>])
              ELSE [g EXCEPT ![j].entries = Append(@, e)],
              docs, i + 1)

\* list.sort compares keys with <: a None key in a list of two or more
\* entries raises TypeError
SortRaises(entries) ==
    /\ Len(entries) >= 2
    /\ \E i \in 1..Len(entries) : entries[i].date = PyNone

\* a mutant: an entry goes before the entries of the same date
RECURSIVE InsertBeforeEqualMutant(_, _, _)
InsertBeforeEqualMutant(sorted, e, i) ==
    IF i > Len(sorted) THEN Append(sorted, e)
    ELSE IF ~StrLess(sorted[i].date, e.date, 1)
    THEN SubSeq(sorted, 1, i - 1) \o <<e>> \o SubSeq(sorted, i, Len(sorted))
    ELSE InsertBeforeEqualMutant(sorted, e, i + 1)

\* stable insertion of e into a list sorted by date
RECURSIVE InsertByDate(_, _, _)
InsertByDate(sorted, e, i) ==
    IF i > Len(sorted) THEN Append(sorted, e)
    ELSE IF StrLess(e.date, sorted[i].date, 1)
    THEN SubSeq(sorted, 1, i - 1) \o <<e>> \o SubSeq(sorted, i, Len(sorted))
    ELSE InsertByDate(sorted, e, i + 1)

\* list.sort(key=date): stable, ascending
RECURSIVE SortByDate(_, _, _)
SortByDate(sorted, entries, i) ==
    IF i > Len(entries) THEN sorted
    ELSE SortByDate(InsertByDate(sorted, entries[i], 1), entries, i + 1)

\* the result: raised (a TypeError left the function) or the sorted groups
process_temporal_versioning(docs) ==
    LET g == GroupVersions(<<>>, docs, 1) IN
    IF \E j \in 1..Len(g) : SortRaises(g[j].entries)
    THEN [raised |-> TRUE, groups |-> <<>>]
    ELSE [raised |-> FALSE,
          groups |-> [j \in 1..Len(g) |->
                        [key |-> g[j].key,
                         entries |-> SortByDate(<<>>, g[j].entries, 1)]]]

\* ------------------------------------------------------------------------
\* What process_file calls
\* ------------------------------------------------------------------------

\* sub in text
Contains(text, sub) ==
    \E i \in 1..(Len(text) - Len(sub) + 1) : SubSeq(text, i, i + Len(sub) - 1) = sub

\* the substrings infer_document_type looks for
Hint ==
    [constitution |-> <<"c", "o", "n", "s", "t", "i", "t", "u", "t", "i", "o", "n">>,
     core_legislation |->
        <<"c", "o", "r", "e", "_", "l", "e", "g", "i", "s", "l", "a", "t", "i", "o", "n">>,
     act |-> <<"a", "c", "t">>,
     case_law |-> <<"c", "a", "s", "e", "_", "l", "a", "w">>,
     judgment |-> <<"j", "u", "d", "g", "m", "e", "n", "t">>,
     regulation |-> <<"r", "e", "g", "u", "l", "a", "t", "i", "o", "n">>,
     provincial |-> <<"p", "r", "o", "v", "i", "n", "c", "i", "a", "l">>,
     municipal |-> <<"m", "u", "n", "i", "c", "i", "p", "a", "l">>,
     bylaw |-> <<"b", "y", "l", "a", "w">>]

infer_document_type(file_path) ==
    LET path_lower == LowerCase(file_path) IN
    IF Contains(path_lower, Hint.constitution) THEN "constitution"
    ELSE IF Contains(path_lower, Hint.core_legislation) \/ Contains(path_lower, Hint.act)
    THEN "act"
    ELSE IF Contains(path_lower, Hint.case_law) \/ Contains(path_lower, Hint.judgment)
    THEN "case"
    ELSE IF Contains(path_lower, Hint.regulation) THEN "regulation"
    ELSE IF Contains(path_lower, Hint.provincial) THEN "provincial_legislation"
    ELSE IF Contains(path_lower, Hint.municipal) \/ Contains(path_lower, Hint.bylaw)
    THEN "municipal_bylaw"
    ELSE "unknown"

\* self.citation_patterns, in the order of the list
citation_patterns ==
    LET d == Set(Digit)
        w == Set(Word)
        ws == Set(Space)
        year == Times(d, 4)
        court == Cat(<<Lit("("), Plus(w), Lit(")")>>)
        sub == Opt(Group(1, Cat(<<Lit("("), Plus(w), Lit(")")>>)))
    IN << \* \d{4}\s*\(\s*\d+\s*\)\s*\w+\s*\d+\s*\(\w+\)
          Cat(<<year, Star(ws), Lit("("), Star(ws), Plus(d), Star(ws), Lit(")"),
                Star(ws), Plus(w), Star(ws), Plus(d), Star(ws), court>>),
          \* \[\d{4}\]\s*\w+\s*\d+\s*\(\w+\)
          Cat(<<Lit("["), year, Lit("]"), Star(ws), Plus(w), Star(ws), Plus(d),
                Star(ws), court>>),
          \* \d{4}\s*\(\d+\)\s*BCLR\s*\d+
          Cat(<<year, Star(ws), Lit("("), Plus(d), Lit(")"), Star(ws),
                Str(<<"B", "C", "L", "R">>), Star(ws), Plus(d)>>),
          \* Act\s+No\.\s*\d+\s+of\s+\d{4}
          Cat(<<Str(<<"A", "c", "t">>), Plus(ws), Str(<<"N", "o", ".">>), Star(ws),
                Plus(d), Plus(ws), Str(<<"o", "f">>), Plus(ws), year>>),
          \* Act\s+\d+\s+of\s+\d{4}
          Cat(<<Str(<<"A", "c", "t">>), Plus(ws), Plus(d), Plus(ws),
                Str(<<"o", "f">>), Plus(ws), year>>),
          \* section\s+\d+(\(\w+\))?
          Cat(<<Str(<<"s", "e", "c", "t", "i", "o", "n">>), Plus(ws), Plus(d), sub>>),
          \* s\s*\d+(\(\w+\))?
          Cat(<<Lit("s"), Star(ws), Plus(d), sub>>),
          \* Constitution
          Str(<<"C", "o", "n", "s", "t", "i", "t", "u", "t", "i", "o", "n">>),
          \* constitutional
          Str(<<"c", "o", "n", "s", "t", "i", "t", "u", "t", "i", "o", "n", "a", "l">>),
          \* GN\s+\d+
          Cat(<<Str(<<"G", "N">>), Plus(ws), Plus(d)>>),
          \* GG\s+\d+
          Cat(<<Str(<<"G", "G">>), Plus(ws), Plus(d)>>) >>

\* the citation records of the matches ms of the k-th pattern; offsets are
\* 0-based, end exclusive, and pattern_type names the pattern by its place
\* in the list
CitationRecords(text, doc_id, k, ms) ==
    [j \in 1..Len(ms) |->
        [text |-> SubSeq(text, ms[j].start, ms[j].end - 1),
         start |-> ms[j].start - 1,
         end |-> ms[j].end - 1,
         pattern_type |-> k,
         document_id |-> doc_id]]

\* a mutant: a match that overlaps a citation already recorded is dropped
RECURSIVE process_citations_DedupMutant(_, _, _, _)
process_citations_DedupMutant(text, doc_id, citations, k) ==
    IF k > Len(citation_patterns) THEN citations
    ELSE LET found == CitationRecords(text, doc_id, k,
                          re_finditer(IgnoreCase(citation_patterns[k]), text, 1))
             fresh == SelectSeq(found, LAMBDA c :
                          \A i \in 1..Len(citations) :
                              c.end <= citations[i].start \/ citations[i].end <= c.start)
         IN process_citations_DedupMutant(text, doc_id, citations \o fresh, k + 1)

\* the loop over the patterns from the k-th on, citations found so far
RECURSIVE process_citations(_, _, _, _)
process_citations(text, doc_id, citations, k) ==
    IF k > Len(citation_patterns) THEN citations
    ELSE process_citations(
            text, doc_id,
            citations \o CitationRecords(text, doc_id, k,
                            re_finditer(IgnoreCase(citation_patterns[k]), text, 1)),
            k + 1)

\* r'Act\s+(?:No\.\s*)?(\d+)\s+of\s+(\d{4})' with re.IGNORECASE
ActTargetPattern ==
    IgnoreCase(Cat(<<Str(<<"A", "c", "t">>), Plus(Set(Space)),
                     Opt(Cat(<<Str(<<"N", "o", ".">>), Star(Set(Space))>>)),
                     Group(1, Plus(Set(Digit))), Plus(Set(Space)),
                     Str(<<"o", "f">>), Plus(Set(Space)),
                     Group(2, Times(Set(Digit), 4))>>))

\* r'(\d{4})\s*\(\s*\d+\s*\)\s*(\w+)\s*\d+\s*\((\w+)\)'
CaseTargetPattern ==
    Cat(<<Group(1, Times(Set(Digit), 4)), Star(Set(Space)), Lit("("),
          Star(Set(Space)), Plus(Set(Digit)), Star(Set(Space)), Lit(")"),
          Star(Set(Space)), Group(2, Plus(Set(Word))), Star(Set(Space)),
          Plus(Set(Digit)), Star(Set(Space)),
          Lit("("), Group(3, Plus(Set(Word))), Lit(")")>>)

\* a mutant: the two groups of the act pattern change places in the id
identify_target_document_SwappedMutant(citation_text) ==
    LET act_match == re_search(ActTargetPattern, citation_text, 1)
        case_match == re_search(CaseTargetPattern, citation_text, 1)
    IN IF act_match # <<>>
       THEN <<"act_" \o ToStr(GroupText(citation_text, act_match[1], 1))
                \o "_" \o ToStr(GroupText(citation_text, act_match[1], 2))>>
       ELSE IF case_match # <<>>
       THEN <<"case_" \o ToStr(GroupText(citation_text, case_match[1], 1))
                \o "_" \o ToStr(GroupText(citation_text, case_match[1], 2))
                \o "_" \o ToStr(GroupText(citation_text, case_match[1], 3))>>
       ELSE <<>>

\* the target of a citation text: <<id>>, or <<>> for None
identify_target_document(citation_text) ==
    LET act_match == re_search(ActTargetPattern, citation_text, 1)
        case_match == re_search(CaseTargetPattern, citation_text, 1)
    IN IF act_match # <<>>
       THEN <<"act_" \o ToStr(GroupText(citation_text, act_match[1], 2))
                \o "_" \o ToStr(GroupText(citation_text, act_match[1], 1))>>
       ELSE IF case_match # <<>>
       THEN <<"case_" \o ToStr(GroupText(citation_text, case_match[1], 1))
                \o "_" \o ToStr(GroupText(citation_text, case_match[1], 2))
                \o "_" \o ToStr(GroupText(citation_text, case_match[1], 3))>>
       ELSE <<>>

RECURSIVE MapReferences(_, _, _)
MapReferences(refs, citations, i) ==
    IF i > Len(citations) THEN refs
    ELSE LET target_doc == identify_target_document(citations[i].text) IN
         MapReferences(
            IF target_doc # <<>>
            THEN Append(refs, [citation |-> citations[i].text,
                               target_document |-> target_doc[1],
                               location |-> citations[i].start])
            ELSE refs,
            citations, i + 1)

map_cross_references(citations, doc_id) ==
    [document_id |-> doc_id, references |-> MapReferences(<<>>, citations, 1)]

count_element_types(elements) ==
    [t \in {elements[i].type : i \in 1..Len(elements)} |->
        Cardinality({i \in 1..Len(elements) : elements[i].type = t})]

\* ------------------------------------------------------------------------
\* detect_language
\* ------------------------------------------------------------------------

\* the length of the sample detect_language looks at
SampleLen == 1000

\* language_words, in the order of the dict
language_words ==
    <<
      [lang |-> "en", words |-> <<
          <<"t", "h", "e">>, <<"a", "n", "d">>, <<"o", "f">>, <<"t", "o">>,
          <<"a">>, <<"i", "n">>, <<"t", "h", "a", "t">>, <<"i", "s">>>>],
      [lang |-> "af", words |-> <<
          <<"d", "i", "e">>, <<"e", "n">>, <<"v", "a", "n">>, <<"i", "n">>,
          <<"i", "s">>, <<"h", "e", "t">>, <<"n", "i", "e">>,
          <<"d", "a", "t">>>>],
      [lang |-> "zu", words |-> <<
          <<"u", "k", "u", "t", "h", "i">>, <<"u", "m", "u", "n", "t", "u">>,
          <<"f", "u", "t", "h", "i">>,
          <<"n", "g", "o", "k", "u", "t", "h", "i">>,
          <<"n", "g", "o", "b", "a">>, <<"u", "m", "a">>>>],
      [lang |-> "xh", words |-> <<
          <<"u", "k", "u", "b", "a">>, <<"k", "u", "n", "y", "e">>,
          <<"u", "k", "u", "z", "e">>, <<"u", "m", "t", "u">>,
          <<"k", "o", "d", "w", "a">>, <<"k", "u", "b", "a">>>>],
      [lang |-> "st", words |-> <<
          <<"h", "o", "r", "e">>, <<"l", "e">>, <<"k", "a">>, <<"h", "o">>,
          <<"k", "e">>, <<"h", "a">>, <<"t", "s", "e">>, <<"y", "a">>>>],
      [lang |-> "tn", words |-> <<
          <<"g", "o", "r", "e">>, <<"l", "e">>, <<"k", "a">>, <<"g", "o">>,
          <<"k", "e">>, <<"g", "a">>, <<"t", "s", "e">>, <<"y", "a">>>>],
      [lang |-> "nso", words |-> <<
          <<"g", "o", "r", "e">>, <<"l", "e">>, <<"k", "a">>, <<"g", "o">>,
          <<"k", "e">>, <<"g", "a">>, <<"t", SCaron, "e">>, <<"y", "a">>>>],
      [lang |-> "ts", words |-> <<
          <<"k", "u">>, <<"n", "a">>, <<"n", "i">>, <<"v", "a">>,
          <<"s", "w", "i">>, <<"l", "a", "h", "a">>, <<"l", "o", "k", "o">>,
          <<"k", "a", "m", "b", "e">>>>],
      [lang |-> "ss", words |-> <<
          <<"k", "u", "t", "s", "i">>, <<"u", "m", "a">>,
          <<"n", "a", "l", "o", "k", "u">>, <<"n", "g", "o", "b", "a">>,
          <<"k", "u", "z", "e">>, <<"k", "a", "n", "t", "s", "i">>>>],
      [lang |-> "ve", words |-> <<
          <<"u", "r", "i">>, <<"n", "a">>, <<"v", "h", "a">>,
          <<"n", "g", "a">>, <<"k", "h", "a">>, <<"h", "a">>,
          <<"n", "d", "i">>, <<"h", "u">>>>],
      [lang |-> "nr", words |-> <<
          <<"b", "o", "n", "a">>, <<"u", "k", "u", "t", "h", "i">>,
          <<"l", "o", "k", "h", "u">>, <<"l", "a", "p", "h", "o">>,
          <<"u", "m", "a">>, <<"n", "g", "a", "k", "h", "o">>>>]
    >>

IsWordChar(s, p) == p >= 1 /\ p <= Len(s) /\ s[p] \in Word

\* len(re.findall(r'\b' + re.escape(word) + r'\b', sample)): the places
\* where word stands with a word boundary on either side
CountWord(sample, word) ==
    Cardinality({i \in 1..(Len(sample) - Len(word) + 1) :
                    /\ sample[i] = word[1]
                    /\ SubSeq(sample, i, i + Len(word) - 1) = word
                    /\ ~IsWordChar(sample, i - 1)
                    /\ ~IsWordChar(sample, i + Len(word))})

\* the score of the k-th language: the sum over its words
RECURSIVE SumWords(_, _, _)
SumWords(sample, words, j) ==
    IF j > Len(words) THEN 0
    ELSE CountWord(sample, words[j]) + SumWords(sample, words, j + 1)

language_scores(sample) ==
    [k \in 1..Len(language_words) |->
        [lang |-> language_words[k].lang,
         score |-> SumWords(sample, language_words[k].words, 1)]]

\* max(items, key=score): the first item with the greatest score
RECURSIVE PyMax(_, _, _)
PyMax(items, best, k) ==
    IF k > Len(items) THEN best
    ELSE PyMax(items, IF items[k].score > best.score THEN items[k] ELSE best, k + 1)

detect_language(text) ==
    LET sample == LowerCase(SubSeq(text, 1, IF Len(text) < SampleLen THEN Len(text)
                                             ELSE SampleLen))
        scores == language_scores(sample)
        max_lang == PyMax(scores, scores[1], 2)
    IN IF max_lang.score = 0 THEN "en" ELSE max_lang.lang

\* ------------------------------------------------------------------------
\* analyze_document_structure
\* ------------------------------------------------------------------------

\* self.structure_patterns, in the order of the dict
structure_patterns ==
    LET d == Set(Digit)
        ws == Set(Space)
        az == Set(Lower)
    IN << \* ^[A-Z\d\s.,;:\'\"&()[\]{}#*-]+$
          [type |-> "heading",
           pattern |-> Cat(<<Bol,
                Plus(Set(Upper \cup Digit \cup Space \cup
                         {".", ",", ";", ":", "'", "\"", "&", "(", ")", "[", "]",
                          "{", "}", "#", "*", "-"})),
                Eol>>)],
          \* ^(\d+\.|\(\d+\)|\([a-z]\)|\d+\s*\.\s*\d+\s*\.)
          [type |-> "section",
           pattern |-> Cat(<<Bol, Group(1, Alt(<<
                Cat(<<Plus(d), Lit(".")>>),
                Cat(<<Lit("("), Plus(d), Lit(")")>>),
                Cat(<<Lit("("), az, Lit(")")>>),
                Cat(<<Plus(d), Star(ws), Lit("."), Star(ws), Plus(d), Star(ws),
                      Lit(".")>>)>>))>>)],
          \* ^\([a-z]\)
          [type |-> "subsection",
           pattern |-> Cat(<<Bol, Lit("("), az, Lit(")")>>)],
          \* ^[a-z]\.
          [type |-> "paragraph",
           pattern |-> Cat(<<Bol, az, Lit(".")>>)],
          \* ^\([ivxlcdm]+\)
          [type |-> "subparagraph",
           pattern |-> Cat(<<Bol, Lit("("),
                Plus(Set({"i", "v", "x", "l", "c", "d", "m"})), Lit(")")>>)],
          \* ^"[^"]+"\s+means
          [type |-> "definition",
           pattern |-> Cat(<<Bol, Lit("\""), Plus(Set(Alphabet \ {"\""})), Lit("\""),
                Plus(ws), Str(<<"m", "e", "a", "n", "s">>)>>)],
          \* \|\s*\w+\s*\|
          [type |-> "table_header",
           pattern |-> Cat(<<Lit("|"), Star(ws), Plus(Set(Word)), Star(ws), Lit("|")>>)],
          \* ^\s*<bullet>\s+
          [type |-> "list_item",
           pattern |-> Cat(<<Bol, Star(ws), Lit(Bullet), Plus(ws)>>)],
          \* ^\s*\d+\.\s+
          [type |-> "footnote",
           pattern |-> Cat(<<Bol, Star(ws), Plus(d), Lit("."), Plus(ws)>>)],
          \* ^PREAMBLE
          [type |-> "preamble",
           pattern |-> Cat(<<Bol, Str(<<"P", "R", "E", "A", "M", "B", "L", "E">>)>>)],
          \* ^(END ?NOTES|NOTES)
          [type |-> "endnote",
           pattern |-> Cat(<<Bol, Group(1, Alt(<<
                Cat(<<Str(<<"E", "N", "D">>), Opt(Lit(" ")),
                      Str(<<"N", "O", "T", "E", "S">>)>>),
                Str(<<"N", "O", "T", "E", "S">>)>>))>>)] >>

\* text.split('\n'): the lines of text from position i on, cur the line begun
RECURSIVE SplitLines(_, _, _)
SplitLines(text, i, cur) ==
    IF i > Len(text) THEN <<cur>>
    ELSE IF text[i] = "\n" THEN <<cur>> \o SplitLines(text, i + 1, <<>>)
    ELSE SplitLines(text, i + 1, Append(cur, text[i]))

\* a mutant: the line is taken as it is, indentation included
StripKeepsIndentMutant(line) == line

\* line.strip()
RECURSIVE Strip(_)
Strip(line) ==
    IF line = <<>> THEN line
    ELSE IF Head(line) \in Space THEN Strip(Tail(line))
    ELSE IF line[Len(line)] \in Space THEN Strip(SubSeq(line, 1, Len(line) - 1))
    ELSE line

\* a mutant: the loop over the patterns has no break, the last match stays
RECURSIVE ElementTypeLastMatchMutant(_, _, _)
ElementTypeLastMatchMutant(line, k, element_type) ==
    IF k > Len(structure_patterns) THEN element_type
    ELSE ElementTypeLastMatchMutant(line, k + 1,
            IF re_match(structure_patterns[k].pattern, line) # <<>>
            THEN structure_patterns[k].type ELSE element_type)

\* the loop over the patterns from the k-th on: the first match breaks it
RECURSIVE ElementType(_, _, _)
ElementType(line, k, element_type) ==
    IF k > Len(structure_patterns) THEN element_type
    ELSE IF re_match(structure_patterns[k].pattern, line) # <<>>
    THEN structure_patterns[k].type
    ELSE ElementType(line, k + 1, element_type)

\* the loop over enumerate(lines) from the i-th line (0-based) on
RECURSIVE StructureElements(_, _)
StructureElements(lines, i) ==
    IF i >= Len(lines) THEN <<>>
    ELSE LET line == Strip(lines[i + 1]) IN
         IF line = <<>> THEN StructureElements(lines, i + 1)
         ELSE <<[line_number |-> i, text |-> line,
                 type |-> ElementType(line, 1, "text")]>>
                 \o StructureElements(lines, i + 1)

analyze_document_structure(text, doc_id) ==
    [document_id |-> doc_id,
     elements |-> StructureElements(SplitLines(text, 1, <<>>), 0)]

\* ------------------------------------------------------------------------
\* The input tree
\* ------------------------------------------------------------------------

\* The files of the input tree in os.walk order: the path, the text that
\* extract_text_from_file gets from the file when it gets any, and the
\* number of matches extract_legal_reasoning finds per category.
FileSystem ==
    << [path |-> <<"i", "n", "/", "c", "o", "r", "e", "_", "l", "e", "g", "i",
                   "s", "l", "a", "t", "i", "o", "n", "/", "a", "c", "t", "_",
                   "2", "0", "0", "8", "_", "7", "1", ".", "t", "x", "t">>,
        text |-> <<"C", "H", "A", "P", "T", "E", "R", " ", "1", "\n", "1", ".",
                   " ", "I", "n", " ", "s", "e", "c", "t", "i", "o", "n", " ",
                   "5">>,
        reasoning |-> [ratio_decidendi |-> 0, precedent_application |-> 0]],
       [path |-> <<"i", "n", "/", "c", "a", "s", "e", "_", "l", "a", "w", "/",
                   "s", "m", "i", "t", "h", ".", "p", "d", "f">>,
        text |-> <<"J", "U", "D", "G", "M", "E", "N", "T", "\n", "s", "e", "e",
                   " ", "A", "c", "t", " ", "N", "o", ".", " ", "7", "1", " ",
                   "o", "f", " ", "2", "0", "0", "8">>,
        reasoning |-> [ratio_decidendi |-> 1, precedent_application |-> 1]],
       [path |-> <<"i", "n", "/", "r", "e", "g", "u", "l", "a", "t", "i", "o",
                   "n", "s", "/", "s", "m", "i", "t", "h", ".", "t", "x", "t">>,
        text |-> <<"d", "i", "e", " ", "r", "e", "g", "u", "l", "a", "s", "i",
                   "e", "s", " ", "v", "a", "n", " ", "d", "i", "e", " ", "w",
                   "e", "t">>,
        reasoning |-> [ratio_decidendi |-> 0, precedent_application |-> 0]],
       [path |-> <<"i", "n", "/", "c", "o", "r", "e", "_", "l", "e", "g", "i",
                   "s", "l", "a", "t", "i", "o", "n", "/", "b", "a", "n", "k",
                   "s", ".", "p", "d", "f">>,
        text |-> <<"B", "A", "N", "K", "S", "\n", "c", "f", " ", "A", "c", "t",
                   " ", "7", "1", " ", "o", "f", " ", "2", "0", "0", "8">>,
        reasoning |-> [ratio_decidendi |-> 0, precedent_application |-> 2]],
       [path |-> <<"i", "n", "/", "m", "i", "s", "c", "/", "c", "o", "n", "s",
                   "t", "i", "t", "u", "t", "i", "o", "n", ".", "p", "d", "f">>,
        text |-> <<"P", "R", "E", "A", "M", "B", "L", "E", " ", "o", "f", "\n",
                   "t", "h", "e", " ", "C", "o", "n", "s", "t", "i", "t", "u",
                   "t", "i", "o", "n">>,
        reasoning |-> [ratio_decidendi |-> 0, precedent_application |-> 0]] >>

Files == 1..Len(FileSystem)

\* ------------------------------------------------------------------------
\* process_file
\* ------------------------------------------------------------------------

\* os.path.basename(file_path)
RECURSIVE Basename(_)
Basename(file_path) ==
    IF \E i \in 1..Len(file_path) : file_path[i] = "/"
    THEN Basename(Tail(file_path))
    ELSE file_path

\* os.path.splitext(name)[0]: name up to its last dot, a leading dot apart
SplitExtRoot(name) ==
    LET dots == {i \in 2..Len(name) : name[i] = "." /\ \E j \in 1..(i - 1) : name[j] # "."}
    IN IF dots = {} THEN name
       ELSE SubSeq(name, 1, (CHOOSE i \in dots : \A j \in dots : j <= i) - 1)

\* lines 477-498 on each file: the ID and what the analysers return
Processed ==
    [i \in Files |->
        LET doc_id == ToStr(SplitExtRoot(Basename(FileSystem[i].path)))
            text == FileSystem[i].text
            citations == process_citations(text, doc_id, <<>>, 1)
        IN [doc_id |-> doc_id,
            citations |-> citations,
            structure |-> analyze_document_structure(text, doc_id),
            cross_refs |-> map_cross_references(citations, doc_id),
            language |-> detect_language(text)]]

DocId(i) == Processed[i].doc_id

\* cross_refs of line 488, file by file
CrossReferences == [i \in Files |-> Processed[i].cross_refs]

\* the doc_info dict of lines 501-513, file by file
DocInfos ==
    [i \in Files |->
        [id |-> Processed[i].doc_id,
         path |-> ToStr(FileSystem[i].path),
         type |-> infer_document_type(FileSystem[i].path),
         language |-> Processed[i].language,
         citation_count |-> Len(Processed[i].citations),
         structure |->
            [elements_count |-> Len(Processed[i].structure.elements),
             element_types |-> count_element_types(Processed[i].structure.elements)],
         cross_references |-> Len(Processed[i].cross_refs.references),
         reasoning_patterns |-> FileSystem[i].reasoning]]

DocInfo(i) == DocInfos[i]

\* the four files of save_processing_results, in the order it writes them
ArtifactKinds == <<"citations", "structure", "cross_references", "reasoning">>

ArtifactPath(k, doc_id) == <<ArtifactKinds[k], doc_id>>

\* ------------------------------------------------------------------------
\* process_directory: the map stage
\* ------------------------------------------------------------------------

\* the most files one run discovers
MaxFiles == 3

\* the worker processes of the ProcessPoolExecutor (os.cpu_count())
MaxWorkers == 2

Dispatched == {document_files[n] : n \in 1..Len(document_files)}

\* document_files after lines 578-589: files of the tree in walk order
DiscoveredLists ==
    UNION {{d \in [1..n -> Files] : \A a, b \in 1..n : a < b => d[a] < d[b]}
             : n \in 0..MaxFiles}

Init ==
    /\ document_files \in DiscoveredLists
    /\ task = [i \in {document_files[n] : n \in 1..Len(document_files)} |->
                 [state |-> "pending", saved |-> 0, result |-> "unset"]]
    /\ written = EmptyDict
    /\ documents = <<>>
    /\ stored = {}
    /\ pc = "map"
    /\ outputs = EmptyDict
    /\ log = {}
    /\ hdocs = <<>>
    /\ hgraph = EmptyGraph
    /\ hpc = "idle"
    /\ call = "idle"
    /\ arg = <<>>
    /\ ret = <<>>

NumRunning == Cardinality({i \in Dispatched : task[i].state = "running"})

\* A worker takes the file's task and runs process_file up to the call of
\* save_processing_results (lines 475-513).
StartTask(i) ==
    /\ pc = "map"
    /\ task[i].state = "pending"
    /\ NumRunning < MaxWorkers
    /\ \/ \* extract_text_from_file returned no text: warning, return None
          /\ task' = [task EXCEPT ![i] = [state |-> "finished", saved |-> 0,
                                          result |-> "none"]]
          /\ log' = log \cup {<<"warning", "no_text", i>>}
       \/ \* a step raised: caught at line 525, error logged, return None
          /\ task' = [task EXCEPT ![i] = [state |-> "finished", saved |-> 0,
                                          result |-> "none"]]
          /\ log' = log \cup {<<"error", "process_file", i>>}
       \/ \* the record is built; save_processing_results is entered
          /\ task' = [task EXCEPT ![i].state = "running"]
          /\ log' = log
    /\ UNCHANGED <<document_files, written, documents, stored, pc, outputs, hvars, fvars>>

\* save_processing_results: the next of the four open(..., 'w') + json.dump
WriteArtifact(i) ==
    /\ pc = "map"
    /\ task[i].state = "running"
    /\ task[i].saved < Len(ArtifactKinds)
    /\ LET k == task[i].saved + 1
           a == ArtifactPath(k, DocId(i))
       IN \/ \* the file is written
             /\ written' = (a :> Append(Get(written, a, <<>>), i)) @@ written
             /\ task' = [task EXCEPT ![i] =
                           IF k = Len(ArtifactKinds)
                           THEN [state |-> "finished", saved |-> k, result |-> "record"]
                           ELSE [state |-> "running", saved |-> k, result |-> "unset"]]
             /\ log' = log
          \/ \* the last file is written, but the future carries an exception
             /\ k = Len(ArtifactKinds)
             /\ written' = (a :> Append(Get(written, a, <<>>), i)) @@ written
             /\ task' = [task EXCEPT ![i] =
                           [state |-> "finished", saved |-> k, result |-> "raised"]]
             /\ log' = log
          \/ \* the write raises: caught at line 525, error logged, return None
             /\ written' = written
             /\ task' = [task EXCEPT ![i] =
                           [state |-> "finished", saved |-> k - 1, result |-> "none"]]
             /\ log' = log \cup {<<"error", "process_file", i>>}
    /\ UNCHANGED <<document_files, documents, stored, pc, outputs, hvars, fvars>>

\* a mutant: an exception of future.result() is not caught and leaves
\* process_directory
CollectUncaughtMutant(i) ==
    /\ pc = "map"
    /\ task[i].state = "finished"
    /\ task' = [task EXCEPT ![i].state = "consumed"]
    /\ IF task[i].result = "record"
       THEN /\ documents' = DictSet(documents, DocId(i), DocInfo(i))
            /\ stored' = stored \cup {i}
            /\ UNCHANGED <<log, pc>>
       ELSE IF task[i].result = "raised"
       THEN /\ pc' = "raised"
            /\ UNCHANGED <<documents, stored, log>>
       ELSE UNCHANGED <<documents, stored, log, pc>>
    /\ UNCHANGED <<document_files, written, outputs, hvars, fvars>>

\* One iteration of the as_completed loop (lines 598-606): the coordinator
\* takes a completed future and stores its record.
Collect(i) ==
    /\ pc = "map"
    /\ task[i].state = "finished"
    /\ task' = [task EXCEPT ![i].state = "consumed"]
    /\ IF task[i].result = "record"
       THEN /\ documents' = DictSet(documents, DocId(i), DocInfo(i))
            /\ stored' = stored \cup {i}
            /\ log' = log
       ELSE IF task[i].result = "raised"
       THEN /\ log' = log \cup {<<"error", "future", i>>}
            /\ UNCHANGED <<documents, stored>>
       ELSE UNCHANGED <<documents, stored, log>>
    /\ UNCHANGED <<document_files, written, pc, outputs, hvars, fvars>>

\* ------------------------------------------------------------------------
\* process_directory: the reduce stage
\* ------------------------------------------------------------------------

\* a mutant: the coordinator goes on once no task is waiting to start
MapStageOverNoWaitMutant ==
    \A i \in Dispatched : task[i].state # "pending"

\* the as_completed loop has yielded every future and the executor has shut
\* down (lines 595-606)
MapStageOver ==
    \A i \in Dispatched : task[i].state = "consumed"

\* a mutant: the reduce stage runs whatever was collected
HasDocumentsAlwaysMutant(docs) == TRUE

\* `if documents:` (line 609)
HasDocuments(docs) == Len(docs) > 0

\* the node/edge export of lines 617-622 reads type and level of every node
ExportRaises(G) ==
    \E n \in DOMAIN G.nodes : ~({"type", "level"} \subseteq DOMAIN G.nodes[n])

HierarchyData(G) ==
    [nodes |-> {[id |-> n, type |-> G.nodes[n].type, level |-> G.nodes[n].level]
                  : n \in DOMAIN G.nodes},
     edges |-> {[source |-> e[1], target |-> e[2]] : e \in DOMAIN G.edges}]

\* a mutant: the sum leaves out the last record
RECURSIVE SumFieldSkipsLastMutant(_, _, _)
SumFieldSkipsLastMutant(docs, field, i) ==
    IF i >= Len(docs) THEN 0
    ELSE docs[i].info[field] + SumFieldSkipsLastMutant(docs, field, i + 1)

\* sum(doc[field] for doc in documents.values())
RECURSIVE SumField(_, _, _)
SumField(docs, field, i) ==
    IF i > Len(docs) THEN 0
    ELSE docs[i].info[field] + SumField(docs, field, i + 1)

\* sum(doc["reasoning_patterns"].get(pattern, 0) for doc in documents.values())
RECURSIVE SumReasoning(_, _, _)
SumReasoning(docs, pattern, i) ==
    IF i > Len(docs) THEN 0
    ELSE Get(docs[i].info.reasoning_patterns, pattern, 0)
            + SumReasoning(docs, pattern, i + 1)

CountBy(docs, field) ==
    [v \in {docs[i].info[field] : i \in 1..Len(docs)} |->
        Cardinality({i \in 1..Len(docs) : docs[i].info[field] = v})]

\* the keys of self.reasoning_patterns
ReasoningTypes ==
    {"ratio_decidendi", "obiter_dicta", "statutory_interpretation",
     "constitutional_reasoning", "precedent_application"}

\* the stats dict of lines 638-656
Statistics(docs) ==
    [total_documents |-> Len(docs),
     document_types |-> CountBy(docs, "type"),
     languages |-> CountBy(docs, "language"),
     total_citations |-> SumField(docs, "citation_count", 1),
     total_cross_references |-> SumField(docs, "cross_references", 1),
     reasoning_patterns |->
        [p \in ReasoningTypes |-> SumReasoning(docs, p, 1)]]

\* what lines 609-668 emit for the collected documents, and how they end
ReduceResult(docs) ==
    IF ~HasDocuments(docs)
    THEN [pc |-> "returned", outputs |-> EmptyDict,
          log |-> {<<"warning", "no_documents", 0>>}]
    ELSE LET G == model_legal_hierarchy(docs)
             versions == process_temporal_versioning(docs)
             gpickle == [hierarchy_gpickle |-> G]
             hierarchy == [hierarchy_json |-> HierarchyData(G)] @@ gpickle
         IN IF ExportRaises(G)
            THEN [pc |-> "raised", outputs |-> gpickle,
                  log |-> {<<"call", "model_legal_hierarchy", 0>>}]
            ELSE IF versions.raised
            THEN [pc |-> "raised", outputs |-> hierarchy,
                  log |-> {<<"call", "model_legal_hierarchy", 0>>,
                           <<"call", "process_temporal_versioning", 0>>}]
            ELSE [pc |-> "returned",
                  outputs |-> [document_versions |-> versions.groups,
                               document_info |-> docs,
                               processing_statistics |-> Statistics(docs)]
                              @@ hierarchy,
                  log |-> {<<"call", "model_legal_hierarchy", 0>>,
                           <<"call", "process_temporal_versioning", 0>>}]

\* The coordinator leaves the map stage and runs lines 608-668 to their end:
\* pc is "returned" when process_directory returned its documents, "raised"
\* when an exception left it.
Reduce ==
    /\ pc = "map"
    /\ MapStageOver
    /\ LET r == ReduceResult(documents) IN
        /\ pc' = r.pc
        /\ outputs' = r.outputs
        /\ log' = log \cup r.log
    /\ UNCHANGED <<document_files, task, written, documents, stored, hvars, fvars>>

Next ==
    \/ \E i \in Dispatched : StartTask(i)
    \/ \E i \in Dispatched : WriteArtifact(i)
    \/ \E i \in Dispatched : Collect(i)
    \/ Reduce

Spec == Init /\ [][Next]_vars

\* ------------------------------------------------------------------------
\* model_legal_hierarchy on arbitrary mappings
\* ------------------------------------------------------------------------

\* the most records in one argument
MaxDocs == 2

HIds == {"constitution", "a", "b"}

\* reference lists: targets among the ids and one id ("z") of no record
RefLists ==
    {<<>>, <<"a">>, <<"b">>, <<"constitution">>, <<"z">>, <<"a", "b">>, <<"b", "z">>}

MkRefs(ts) ==
    [i \in 1..Len(ts) |-> [citation |-> ts[i], target_document |-> ts[i], location |-> i]]

HInfos ==
    {[type |-> "act"], [type |-> "case"], [type |-> "regulation"],
     [type |-> "constitution"], [type |-> "provincial_legislation"],
     [type |-> "municipal_bylaw"], [type |-> "unknown"], EmptyDict}
    \cup {[type |-> "regulation", parent_act |-> p] : p \in HIds \cup {"z", ""}}
    \cup {[type |-> t, references |-> MkRefs(ts)] :
              t \in {"act", "case"}, ts \in RefLists \ {<<>>}}
    \cup {[type |-> "case", references |-> <<>>]}

HDicts ==
    UNION {{d \in [1..n -> [id : HIds, info : HInfos]] :
                \A i, j \in 1..n : i # j => d[i].id # d[j].id} : n \in 0..MaxDocs}

HInit ==
    /\ hdocs \in HDicts
    /\ hgraph = EmptyGraph
    /\ hpc = "input"
    /\ document_files = <<>>
    /\ task = <<>>
    /\ written = EmptyDict
    /\ documents = <<>>
    /\ stored = {}
    /\ pc = "idle"
    /\ outputs = EmptyDict
    /\ log = {}
    /\ call = "idle"
    /\ arg = <<>>
    /\ ret = <<>>

BuildHierarchy ==
    /\ hpc = "input"
    /\ hgraph' = model_legal_hierarchy(hdocs)
    /\ hpc' = "built"
    /\ UNCHANGED <<hdocs, pvars, fvars>>

HNext == BuildHierarchy

SpecHierarchy == HInit /\ [][HNext]_vars

\* ------------------------------------------------------------------------
\* One call of a pure function: the other components stay idle
\* ------------------------------------------------------------------------

PipelineIdle ==
    /\ document_files = <<>>
    /\ task = <<>>
    /\ written = EmptyDict
    /\ documents = <<>>
    /\ stored = {}
    /\ pc = "idle"
    /\ outputs = EmptyDict
    /\ log = {}

HierarchyIdle ==
    /\ hdocs = <<>>
    /\ hgraph = EmptyGraph
    /\ hpc = "idle"

\* ------------------------------------------------------------------------
\* process_temporal_versioning on arbitrary mappings
\* ------------------------------------------------------------------------

\* the most records in one argument
MaxRecs == 3

VIds == <<"d1", "d2", "d3", "d4", "d5">>

VTitles == {<<"Banks", "Act">>, <<"Banks", "Act", "Amendment">>, <<"Tax", "Act">>}

\* "1990", "2015", "2017" and "990"
VDates == {<<1, 9, 9, 0>>, <<2, 0, 1, 5>>, <<2, 0, 1, 7>>, <<9, 9, 0>>}

\* records: a case, and acts with or without a title and a date
VInfos ==
    {[type |-> "case"], [type |-> "act"]}
    \cup {[type |-> "act", title |-> t] : t \in VTitles}
    \cup {[type |-> "act", date |-> d] : d \in VDates}
    \cup {[type |-> "act", title |-> t, date |-> d] : t \in VTitles, d \in VDates}

\* the mapping whose i-th record has the id VIds[i] and the fields infos[i]
VDict(infos) == [i \in 1..Len(infos) |-> [id |-> VIds[i], info |-> infos[i]]]

VInit ==
    /\ call = "process_temporal_versioning"
    /\ \E n \in 0..MaxRecs : \E infos \in [1..n -> VInfos] : arg = VDict(infos)
    /\ ret = <<>>
    /\ PipelineIdle
    /\ HierarchyIdle

CallVersioning ==
    /\ call = "process_temporal_versioning"
    /\ ret = <<>>
    /\ ret' = <<process_temporal_versioning(arg)>>
    /\ UNCHANGED <<call, arg, pvars, hvars>>

VNext == CallVersioning

SpecVersions == VInit /\ [][VNext]_vars

\* ------------------------------------------------------------------------
\* extract_text_from_pdf on arbitrary PDF files
\* ------------------------------------------------------------------------

\* what a library call on a file can do besides returning text
Raises == "<exception>"
NoneText == "<None>"

\* the try block: fitz.open, then text += page.get_text() page by page
RECURSIVE FitzText(_, _, _)
FitzText(pages, i, text) ==
    IF i > Len(pages) THEN text
    ELSE IF pages[i] = Raises THEN Raises
    ELSE FitzText(pages, i + 1, text \o pages[i])

\* the fallback: text += page.extract_text() or "" over reader.pages
RECURSIVE PyPDF2Text(_, _, _)
PyPDF2Text(pages, i, text) ==
    IF i > Len(pages) THEN text
    ELSE IF pages[i] = Raises THEN Raises
    ELSE PyPDF2Text(pages, i + 1,
                    text \o (IF pages[i] = NoneText THEN "" ELSE pages[i]))

\* the returned text and the extraction methods that were invoked
extract_text_from_pdf(pdf) ==
    LET primary == IF pdf.fitz.open = Raises THEN Raises
                   ELSE FitzText(pdf.fitz.pages, 1, "")
        second == IF pdf.pypdf2.open = Raises THEN Raises
                  ELSE PyPDF2Text(pdf.pypdf2.pages, 1, "")
    IN IF primary # Raises THEN [text |-> primary, methods |-> <<"fitz">>]
       ELSE [text |-> IF second = Raises THEN "" ELSE second,
             methods |-> <<"fitz", "PyPDF2">>]

\* the most pages of one PDF file
MaxPages == 2

\* what one library makes of a file: open fails, or each page gives a result
PdfViews(results) ==
    {[open |-> Raises, pages |-> <<>>]}
    \cup UNION {{[open |-> "ok", pages |-> ps] : ps \in [1..n -> results]}
                  : n \in 0..MaxPages}

PdfInit ==
    /\ call = "extract_text_from_pdf"
    /\ \E f \in PdfViews({"", "a", "b", Raises}) :
       \E p \in PdfViews({"", "a", NoneText, Raises}) :
           arg = [fitz |-> f, pypdf2 |-> p]
    /\ ret = <<>>
    /\ PipelineIdle
    /\ HierarchyIdle

CallExtractPdf ==
    /\ call = "extract_text_from_pdf"
    /\ ret = <<>>
    /\ ret' = <<extract_text_from_pdf(arg)>>
    /\ UNCHANGED <<call, arg, pvars, hvars>>

PdfNext == CallExtractPdf

SpecPdf == PdfInit /\ [][PdfNext]_vars

\* ------------------------------------------------------------------------
\* identify_target_document on citation texts
\* ------------------------------------------------------------------------

\* Citation texts, by the pieces they are written from.  An act citation is
\* pre kw ws1 no num ws2 ofw " " year, a case citation is
\* year a "(" vol ")" a reporter b page a court, any other is a text as is.
ActCitations ==
    [family : {"act"},
     pre : {<<>>, <<"C", "o", "n", "t", "r">>},
     kw : {<<"A", "c", "t">>, <<"A", "C", "T">>, <<"A", "c">>},
     ws1 : {<<" ">>, <<>>},
     no : {<<>>, <<"N", "o", ".", " ">>, <<"N", "o", ".">>, <<"N", "o", " ">>},
     num : {<<"1", "0", "8">>, <<>>},
     ws2 : {<<" ">>, <<>>},
     ofw : {<<"o", "f">>, <<"t", "o">>},
     year : {<<"1", "9", "9", "6">>, <<"9", "6">>, <<"1", "9", "9", "6", "1">>}]

CaseCitations ==
    [family : {"case"},
     year : {<<"2", "0", "0", "8">>, <<"2", "0", "8">>},
     a : {<<" ">>, <<>>},
     vol : {<<"2">>, <<>>},
     reporter : {<<"S", "A">>, <<"B", "C", "L", "R">>, <<"A", "l", "l", " ", "S", "A">>},
     b : {<<" ">>, <<>>},
     page : {<<"2", "3", "2">>, <<>>},
     court : {<<"(", "S", "C", "A", ")">>, <<"[", "S", "C", "A", "]">>, <<>>}]

OtherCitations ==
    [family : {"other"},
     text : {<<>>,
             <<"s", "e", "c", "t", "i", "o", "n", " ", "1", "2", "(", "a", ")">>,
             <<"s", " ", "1", "2">>,
             <<"C", "o", "n", "s", "t", "i", "t", "u", "t", "i", "o", "n">>,
             <<"c", "o", "n", "s", "t", "i", "t", "u", "t", "i", "o", "n", "a", "l">>,
             <<"G", "N", " ", "1", "2", "3">>,
             <<"G", "G", " ", "4", "5">>,
             <<"[", "2", "0", "0", "8", "]", " ", "Z", "A", "S", "C", "A", " ", "1", "0", " ", "(", "S", "C", "A", ")">>,
             <<"2", "0", "0", "1", " ", "(", "1", ")", " ", "B", "C", "L", "R", " ", "3", "6">>,
             <<"A", "c", "t", " ", "N", "o", " ", "5", " ", "o", "f", " ", "1", "9", "9", "6">>,
             <<"A", "c", "t", " ", "o", "f", " ", "1", "9", "9", "6">>,
             <<"1", "9", "9", "6", " ", "o", "f", " ", "A", "c", "t", " ", "5">>}]

CitationText(c) ==
    CASE c.family = "act" ->
            c.pre \o c.kw \o c.ws1 \o c.no \o c.num \o c.ws2 \o c.ofw \o <<" ">> \o c.year
      [] c.family = "case" ->
            c.year \o c.a \o <<"(">> \o c.vol \o <<")">> \o c.a \o c.reporter \o c.b
               \o c.page \o c.a \o c.court
      [] OTHER -> c.text

ResolveInit ==
    /\ call = "identify_target_document"
    /\ arg \in ActCitations \cup CaseCitations \cup OtherCitations
    /\ ret = <<>>
    /\ PipelineIdle
    /\ HierarchyIdle

CallIdentifyTarget ==
    /\ call = "identify_target_document"
    /\ ret = <<>>
    /\ ret' = <<identify_target_document(CitationText(arg))>>
    /\ UNCHANGED <<call, arg, pvars, hvars>>

ResolveNext == CallIdentifyTarget

SpecResolve == ResolveInit /\ [][ResolveNext]_vars

\* ------------------------------------------------------------------------
\* process_citations on texts
\* ------------------------------------------------------------------------

\* the most passages in one text
MaxPassages == 2

\* Passages a text is written from, each closed by "; "
Passages ==
    << <<"A", "c", "t", " ", "N", "o", ".", " ", "5", " ", "o", "f", " ", "1", "9", "9", "6", ";", " ">>,
       <<"a", "c", "t", " ", "5", " ", "o", "f", " ", "1", "9", "9", "6", ";", " ">>,
       <<"1", "9", "9", "9", " ", "(", "2", ")", " ", "T", "S", " ", "5", "8", " ", "(", "T", ")", ";", " ">>,
       <<"2", "0", "0", "1", " ", "(", "1", ")", " ", "B", "C", "L", "R", " ", "3", "6", " ", "(", "C", "C", ")", ";", " ">>,
       <<"s", "e", "c", "t", "i", "o", "n", " ", "2", "5", "(", "b", ")", ";", " ">>,
       <<"s", " ", "2", "5", "(", "b", ")", ";", " ">>,
       <<"C", "o", "n", "s", "t", "i", "t", "u", "t", "i", "o", "n", "a", "l", ";", " ">>,
       <<"G", "N", " ", "1", "2", ";", " ">>,
       <<"G", "G", " ", "4", "5", ";", " ">>,
       <<"t", "h", "e", " ", "c", "o", "u", "r", "t", " ", "h", "e", "l", "d", ";", " ">>,
       <<"[", "2", "0", "0", "8", "]", " ", "Z", "A", "S", "C", "A", " ", "1", "0", " ", "(", "S", "C", "A", ")", ";", " ">> >>

\* the text of the passages ps (their numbers), one after the other
RECURSIVE PassageText(_)
PassageText(ps) ==
    IF ps = <<>> THEN <<>> ELSE Passages[Head(ps)] \o PassageText(Tail(ps))

CitationsInit ==
    /\ call = "process_citations"
    /\ \E n \in 0..MaxPassages : arg \in [1..n -> 1..Len(Passages)]
    /\ ret = <<>>
    /\ PipelineIdle
    /\ HierarchyIdle

CallProcessCitations ==
    /\ call = "process_citations"
    /\ ret = <<>>
    /\ ret' = <<process_citations(PassageText(arg), "doc", <<>>, 1)>>
    /\ UNCHANGED <<call, arg, pvars, hvars>>

CitationsNext == CallProcessCitations

SpecCitations == CitationsInit /\ [][CitationsNext]_vars

\* ------------------------------------------------------------------------
\* detect_language on texts
\* ------------------------------------------------------------------------

\* the most words in one text
MaxWords == 3

\* the words a text is written from
Vocabulary ==
    <<<<"t", "h", "e">>, <<"D", "i", "e">>, <<"e", "n">>, <<"l", "e">>, <<"u", "m", "a">>, <<"i", "n">>, <<"x", "y", "z">>>>

\* the words ws (their numbers) separated by single spaces, after pad spaces
RECURSIVE JoinWords(_)
JoinWords(ws) ==
    IF ws = <<>> THEN <<>>
    ELSE IF Len(ws) = 1 THEN Vocabulary[ws[1]]
    ELSE Vocabulary[Head(ws)] \o <<" ">> \o JoinWords(Tail(ws))

LanguageText(a) == [i \in 1..a.pad |-> " "] \o JoinWords(a.words)

\* texts of up to MaxWords words, and texts of two words that begin three
\* characters before the end of the sample
LanguageInit ==
    /\ call = "detect_language"
    /\ \/ \E n \in 0..MaxWords : \E ws \in [1..n -> 1..Len(Vocabulary)] :
             arg = [pad |-> 0, words |-> ws]
       \/ \E ws \in [1..2 -> 1..Len(Vocabulary)] :
             arg = [pad |-> SampleLen - 3, words |-> ws]
    /\ ret = <<>>
    /\ PipelineIdle
    /\ HierarchyIdle

CallDetectLanguage ==
    /\ call = "detect_language"
    /\ ret = <<>>
    /\ ret' = <<detect_language(LanguageText(arg))>>
    /\ UNCHANGED <<call, arg, pvars, hvars>>

LanguageNext == CallDetectLanguage

SpecLanguage == LanguageInit /\ [][LanguageNext]_vars

\* ------------------------------------------------------------------------
\* analyze_document_structure on texts
\* ------------------------------------------------------------------------

\* the most lines in one text
MaxLines == 2

\* the lines a text is written from
SampleLines ==
    << <<"C", "H", "A", "P", "T", "E", "R", " ", "1">>,
       <<"1", ".", " ", "D", "e", "f", "i", "n", "i", "t", "i", "o", "n", "s">>,
       <<"(", "a", ")", " ", "t", "h", "e", " ", "o", "w", "n", "e", "r">>,
       <<"a", ".", " ", "i", "t", "e", "m">>,
       <<"(", "i", "v", ")", " ", "p", "a", "r", "t">>,
       <<"\"", "a", "c", "t", "\"", " ", "m", "e", "a", "n", "s", " ", "l", "a", "w">>,
       <<"|", " ", "c", "o", "l", " ", "|">>,
       <<Bullet, " ", "p", "o", "i", "n", "t">>,
       <<"P", "R", "E", "A", "M", "B", "L", "E", " ", "t", "o", " ", "a", "c", "t">>,
       <<"E", "N", "D", " ", "N", "O", "T", "E", "S", " ", "x">>,
       <<"p", "l", "a", "i", "n", " ", "t", "e", "x", "t">>,
       <<" ", " ", " ">>,
       <<>>,
       <<" ", " ", "1", "2", ".", " ", "i", "n", "d", "e", "n", "t", "e", "d", " ", "\t">>,
       <<"P", "R", "E", "A", "M", "B", "L", "E">> >>

\* the lines ls (their numbers) joined by newlines
RECURSIVE JoinLines(_)
JoinLines(ls) ==
    IF Len(ls) = 1 THEN SampleLines[ls[1]]
    ELSE SampleLines[Head(ls)] \o <<"\n">> \o JoinLines(Tail(ls))

StructureInit ==
    /\ call = "analyze_document_structure"
    /\ \E n \in 1..MaxLines : arg \in [1..n -> 1..Len(SampleLines)]
    /\ ret = <<>>
    /\ PipelineIdle
    /\ HierarchyIdle

CallAnalyzeStructure ==
    /\ call = "analyze_document_structure"
    /\ ret = <<>>
    /\ ret' = <<analyze_document_structure(JoinLines(arg), "doc")>>
    /\ UNCHANGED <<call, arg, pvars, hvars>>

StructureNext == CallAnalyzeStructure

SpecStructure == StructureInit /\ [][StructureNext]_vars

\* ------------------------------------------------------------------------
\* infer_document_type on paths
\* ------------------------------------------------------------------------

\* Paths, by the pieces they are written from: root "/" dir "/" name "." ext
PathPieces ==
    [root : {<<"i", "n">>,
             <<"A", "c", "t", "-", "C", "o", "l", "l", "e", "c", "t", "i", "o", "n", "/", "o", "u", "t">>},
     dir : {<<"c", "a", "s", "e", "_", "l", "a", "w">>,
            <<"c", "o", "r", "e", "_", "l", "e", "g", "i", "s", "l", "a", "t", "i", "o", "n">>,
            <<"r", "e", "g", "u", "l", "a", "t", "i", "o", "n", "s">>,
            <<"p", "r", "o", "v", "i", "n", "c", "i", "a", "l">>,
            <<"m", "u", "n", "i", "c", "i", "p", "a", "l">>,
            <<"m", "i", "s", "c">>},
     name : {<<"s", "m", "i", "t", "h">>,
             <<"c", "o", "n", "t", "r", "a", "c", "t">>,
             <<"C", "o", "n", "s", "t", "i", "t", "u", "t", "i", "o", "n", "_", "c", "h", "2">>,
             <<"j", "u", "d", "g", "m", "e", "n", "t", "_", "1", "2">>,
             <<"b", "y", "l", "a", "w", "_", "3">>,
             <<"b", "a", "n", "k", "s">>},
     ext : {<<"p", "d", "f">>, <<"t", "x", "t">>}]

PathText(p) == p.root \o <<"/">> \o p.dir \o <<"/">> \o p.name \o <<".">> \o p.ext

TypeInit ==
    /\ call = "infer_document_type"
    /\ arg \in PathPieces
    /\ ret = <<>>
    /\ PipelineIdle
    /\ HierarchyIdle

CallInferType ==
    /\ call = "infer_document_type"
    /\ ret = <<>>
    /\ ret' = <<infer_document_type(PathText(arg))>>
    /\ UNCHANGED <<call, arg, pvars, hvars>>

TypeNext == CallInferType

SpecType == TypeInit /\ [][TypeNext]_vars

\* ------------------------------------------------------------------------
\* process_directory up to the dispatch of the tasks (lines 578-596)
\* ------------------------------------------------------------------------

\* file_extensions
file_extensions ==
    <<<<".", "p", "d", "f">>,
      <<".", "t", "x", "t">>,
      <<".", "h", "t", "m", "l">>,
      <<".", "h", "t", "m">>,
      <<".", "d", "o", "c">>,
      <<".", "d", "o", "c", "x">>,
      <<".", "r", "t", "f">> >>

\* any(file.lower().endswith(ext) for ext in file_extensions)
HasDocumentExtension(file) ==
    LET lower == LowerCase(file) IN
    \E k \in 1..Len(file_extensions) :
        LET ext == file_extensions[k] IN
        /\ Len(ext) <= Len(lower)
        /\ SubSeq(lower, Len(lower) - Len(ext) + 1, Len(lower)) = ext

\* the loops over os.walk(directory): the files kept, in walk order
RECURSIVE WalkDocuments(_, _, _)
WalkDocuments(directory, files, i) ==
    IF i > Len(files) THEN <<>>
    ELSE (IF HasDocumentExtension(files[i])
          THEN <<directory \o <<"/">> \o files[i]>>
          ELSE <<>>) \o WalkDocuments(directory, files, i + 1)

\* args.limit: absent (None) or the integer given on the command line
NoLimit == [given |-> FALSE, value |-> 0]

\* found[:max_files] (found is found)
SliceTo(found, k) ==
    LET n == Len(found)
        stop == IF k < 0 THEN (IF n + k < 0 THEN 0 ELSE n + k)
                ELSE (IF k > n THEN n ELSE k)
    IN SubSeq(found, 1, stop)

\* lines 588-589: None and 0 are both false in "if max_files and ..."
LimitFiles(found, max_files) ==
    IF max_files.given /\ max_files.value # 0 /\ Len(found) > max_files.value
    THEN SliceTo(found, max_files.value)
    ELSE found

\* the files submitted to the executor (line 596: one task for each)
SubmittedFiles(directory, files, max_files) ==
    LimitFiles(WalkDocuments(directory, files, 1), max_files)

\* the most files in the tree, and the largest limit given
MaxTree == 3
MaxLimit == 3

\* the names of the files in the tree
TreeNames ==
    {<<"a", ".", "p", "d", "f">>,
     <<"b", ".", "T", "X", "T">>,
     <<"c", ".", "m", "d">>,
     <<"d", ".", "d", "o", "c", "x">>,
     <<"e", ".", "p", "d", "f", ".", "b", "a", "k">>,
     <<"p", "d", "f">>,
     <<"f", ".", "h", "t", "m">>,
     <<"g", ".", "r", "t", "f", "d">>}

DiscoverInit ==
    /\ call = "process_directory"
    /\ \E n \in 0..MaxTree : \E files \in [1..n -> TreeNames] :
          \E max_files \in {NoLimit} \cup [given : {TRUE}, value : -1..MaxLimit] :
             arg = [directory |-> <<"i", "n">>, files |-> files, max_files |-> max_files]
    /\ ret = <<>>
    /\ PipelineIdle
    /\ HierarchyIdle

CallDiscover ==
    /\ call = "process_directory"
    /\ ret = <<>>
    /\ ret' = <<SubmittedFiles(arg.directory, arg.files, arg.max_files)>>
    /\ UNCHANGED <<call, arg, pvars, hvars>>

SpecDiscover == DiscoverInit /\ [][CallDiscover]_vars

\* ------------------------------------------------------------------------
\* analyze_document_structure on every short text of a small alphabet
\* ------------------------------------------------------------------------

\* the most characters in a text
MaxChars == 5

\* the characters the texts are written in
RoleAlphabet == {"(", "a", ")", "1", ".", " ", "\n"}

RolesInit ==
    /\ call = "analyze_document_structure"
    /\ \E n \in 0..MaxChars : arg \in [1..n -> RoleAlphabet]
    /\ ret = <<>>
    /\ PipelineIdle
    /\ HierarchyIdle

CallAnalyzeRoles ==
    /\ call = "analyze_document_structure"
    /\ ret = <<>>
    /\ ret' = <<analyze_document_structure(arg, "doc")>>
    /\ UNCHANGED <<call, arg, pvars, hvars>>

SpecRoles == RolesInit /\ [][CallAnalyzeRoles]_vars

\* ------------------------------------------------------------------------
\* Properties of model_legal_hierarchy (SpecHierarchy)
\* ------------------------------------------------------------------------

TypeOf(d, i) == Get(d[i].info, "type", "unknown")

\* C8: whatever mapping is passed, the returned graph has the node
\* "constitution", and that node has level 0 and type constitution.
C8_RootInvariant ==
    hpc = "built" =>
        /\ "constitution" \in DOMAIN hgraph.nodes
        /\ hgraph.nodes["constitution"] = [level |-> 0, type |-> "constitution"]

\* the ids the census expects as nodes after the first k records: the root,
\* every act and case, and every regulation whose declared parent was there
RECURSIVE CensusNodes(_, _)
CensusNodes(d, k) ==
    IF k = 0 THEN {"constitution"}
    ELSE LET before == CensusNodes(d, k - 1)
             info == d[k].info
         IN IF TypeOf(d, k) \in {"act", "case"} THEN before \cup {d[k].id}
            ELSE IF /\ TypeOf(d, k) = "regulation"
                    /\ Get(info, "parent_act", "") \in before
                 THEN before \cup {d[k].id}
                 ELSE before

\* the edges the census expects: constitution -> act, parent -> regulation,
\* target -> case for a case's references to ids that are nodes at its visit
CensusEdges(d) ==
    {<<"constitution", d[k].id>> : k \in {j \in 1..Len(d) : TypeOf(d, j) = "act"}}
    \cup {<<d[k].info.parent_act, d[k].id>> :
            k \in {j \in 1..Len(d) :
                     /\ TypeOf(d, j) = "regulation"
                     /\ Get(d[j].info, "parent_act", "") \in CensusNodes(d, j - 1)}}
    \cup UNION {
            {<<r.target_document, d[k].id>> :
                r \in {x \in {d[k].info.references[m] :
                                 m \in 1..Len(Get(d[k].info, "references", <<>>))} :
                         x.target_document \in CensusNodes(d, k - 1) \cup {d[k].id}}}
            : k \in {j \in 1..Len(d) : TypeOf(d, j) = "case"}}

\* the scenario of the spec: a constitution file and an act citing an absent act
CensusScenario(d) ==
    /\ Len(d) = 2
    /\ \E i, j \in 1..2 :
        /\ d[i].id = "constitution" /\ TypeOf(d, i) = "constitution"
        /\ d[j].id = "a" /\ d[j].info = [type |-> "act", references |-> MkRefs(<<"z">>)]

\* C10: the node set is the root plus one node per act, per case and per
\* regulation whose parent was present; other types add no node; every act
\* node has exactly one incoming edge, from "constitution"; an act's own
\* citations add no edge; the scenario gives 2 nodes and 1 edge.
C10_Census ==
    hpc = "built" =>
        /\ DOMAIN hgraph.nodes = CensusNodes(hdocs, Len(hdocs))
        /\ DOMAIN hgraph.edges = CensusEdges(hdocs)
        /\ \A k \in 1..Len(hdocs) :
              TypeOf(hdocs, k) = "act" =>
                 {e \in DOMAIN hgraph.edges : e[2] = hdocs[k].id}
                    = {<<"constitution", hdocs[k].id>>}
        /\ CensusScenario(hdocs) =>
              /\ Cardinality(DOMAIN hgraph.nodes) = 2
              /\ Cardinality(DOMAIN hgraph.edges) = 1

\* C10 witness: the scenario has been built
C10_Witness ==
    /\ hpc = "built"
    /\ CensusScenario(hdocs)
    /\ DOMAIN hgraph.edges = {<<"constitution", "a">>}

\* the records of d of type case that carry a reference to the id t
CasesCiting(d, t) ==
    {i \in 1..Len(d) :
        /\ TypeOf(d, i) = "case"
        /\ \E k \in 1..Len(Get(d[i].info, "references", <<>>)) :
              d[i].info.references[k].target_document = t}

\* C11: when two distinct case records cite each other, the returned graph
\* has both interprets edges between them (a cycle among case nodes).
C11_CyclesKept ==
    hpc = "built" =>
        \A i, j \in 1..Len(hdocs) :
            (i # j /\ i \in CasesCiting(hdocs, hdocs[j].id)
                   /\ j \in CasesCiting(hdocs, hdocs[i].id))
            => /\ <<hdocs[i].id, hdocs[j].id>> \in DOMAIN hgraph.edges
               /\ <<hdocs[j].id, hdocs[i].id>> \in DOMAIN hgraph.edges

\* the iteration orders of the records of d
Reorderings(d) ==
    {[k \in 1..Len(d) |-> d[p[k]]] :
        p \in {q \in [1..Len(d) -> 1..Len(d)] :
                 \A i, j \in 1..Len(d) : i # j => q[i] # q[j]}}

\* C22: for the same set of records, every iteration order of the records
\* gives the same node set and the same edge set.
C22_OrderIndependence ==
    hpc = "built" =>
        \A d \in Reorderings(hdocs) :
            /\ DOMAIN model_legal_hierarchy(d).nodes = DOMAIN hgraph.nodes
            /\ DOMAIN model_legal_hierarchy(d).edges = DOMAIN hgraph.edges

\* the graph after the first k records of hdocs have been visited
GraphAfter(k) == model_legal_hierarchy(SubSeq(hdocs, 1, k))

\* the records of hdocs of type regulation
RegulationVisits == {k \in 1..Len(hdocs) : TypeOf(hdocs, k) = "regulation"}

\* the declared parent act of record k ("" when none is declared)
DeclaredParent(k) == Get(hdocs[k].info, "parent_act", "")

\* C23: a regulation visited while its declared parent is a node becomes a
\* node at level 2 with exactly one new edge parent -> regulation; with the
\* parent undeclared or not a node the visit adds no edge and leaves every
\* existing node and edge as it was.
C23_RegulationHandling ==
    hpc = "built" =>
        /\ hgraph = GraphAfter(Len(hdocs))
        /\ \A k \in RegulationVisits :
              LET before == GraphAfter(k - 1)
                  after == GraphAfter(k)
                  id == hdocs[k].id
                  parent == DeclaredParent(k)
              IN IF parent # "" /\ parent \in DOMAIN before.nodes
                 THEN /\ id \in DOMAIN after.nodes
                      /\ after.nodes[id] = [level |-> 2, type |-> "regulation"]
                      /\ DOMAIN after.edges \ DOMAIN before.edges = {<<parent, id>>}
                      /\ DOMAIN after.nodes = DOMAIN before.nodes \cup {id}
                      /\ \A e \in DOMAIN before.edges : after.edges[e] = before.edges[e]
                 ELSE after = before

\* C23 witness: a regulation was visited after its parent act and attached
\* under it
C23_Witness ==
    /\ hpc = "built"
    /\ \E k \in RegulationVisits :
          /\ \E j \in 1..(k - 1) : hdocs[j].id = DeclaredParent(k) /\ TypeOf(hdocs, j) = "act"
          /\ DeclaredParent(k) \in DOMAIN GraphAfter(k - 1).nodes
          /\ <<DeclaredParent(k), hdocs[k].id>> \in DOMAIN hgraph.edges
          /\ hgraph.nodes[hdocs[k].id].level = 2

\* the level that goes with a type
LevelOfType(t) ==
    CASE t = "constitution" -> 0
      [] t = "act" -> 1
      [] t = "regulation" -> 2
      [] t = "case" -> 3
      [] OTHER -> -1

\* every node of G carries a type and a level, and the level is that of the type
LevelsByType(G) ==
    \A n \in DOMAIN G.nodes :
        /\ {"type", "level"} \subseteq DOMAIN G.nodes[n]
        /\ G.nodes[n].level = LevelOfType(G.nodes[n].type)
        /\ G.nodes[n].level \in 0..3

\* C24: in the returned graph, and after each record visited on the way,
\* every node carries a type and a level with level 0 for constitution, 1 for
\* act, 2 for regulation and 3 for case, so the JSON export reads type and
\* level of every node without failing.
C24_LevelsByType ==
    hpc = "built" =>
        /\ \A k \in 0..Len(hdocs) : LevelsByType(GraphAfter(k))
        /\ LevelsByType(hgraph)
        /\ ~ExportRaises(hgraph)
        /\ {x.id : x \in HierarchyData(hgraph).nodes} = DOMAIN hgraph.nodes

\* C24 witness: an act and a case citing it and a document that is no node
\* were built into a graph with levels 0, 1 and 3
C24_Witness ==
    /\ hpc = "built"
    /\ {hgraph.nodes[n].level : n \in DOMAIN hgraph.nodes} = {0, 1, 3}
    /\ \E k \in 1..Len(hdocs) :
          /\ TypeOf(hdocs, k) = "case"
          /\ \E m \in 1..Len(Get(hdocs[k].info, "references", <<>>)) :
                hdocs[k].info.references[m].target_document \notin DOMAIN hgraph.nodes
          /\ \E e \in DOMAIN hgraph.edges : e[2] = hdocs[k].id

\* C29: in the returned graph every edge into a regulation node comes from
\* an act node (level 1), never from the root, a case or another regulation,
\* and every edge without the relation "interprets" goes from a strictly
\* lower level to a strictly higher one.
C29_RegulationsUnderActs ==
    hpc = "built" =>
        \A e \in DOMAIN hgraph.edges :
            /\ hgraph.nodes[e[2]].type = "regulation"
                  => /\ hgraph.nodes[e[1]].type = "act"
                     /\ hgraph.nodes[e[1]].level = 1
            /\ Get(hgraph.edges[e], "relation", "") # "interprets"
                  => hgraph.nodes[e[1]].level < hgraph.nodes[e[2]].level

\* ------------------------------------------------------------------------
\* Properties of process_directory (Spec)
\* ------------------------------------------------------------------------

Succeeded == {i \in Dispatched : task[i].result = "record"}

FailedTasks == {i \in Dispatched : task[i].result \in {"none", "raised"}}

\* C1: whatever subset of the dispatched files fails, once the map stage is
\* left every task has run to its end, and every task that did not fail has
\* written its four files and had its record stored by the coordinator.
C1_FailureIsolation ==
    pc # "map" =>
        \A i \in Dispatched :
            /\ task[i].state = "consumed"
            /\ task[i].result \in {"record", "none", "raised"}
            /\ task[i].result = "record" =>
                  /\ i \in stored
                  /\ task[i].saved = Len(ArtifactKinds)

\* C1 witness: one task returned None, one future raised, a third file's
\* record was stored
C1_Witness ==
    /\ pc # "map"
    /\ \E i, j, k \in Dispatched :
          /\ task[i].result = "none"
          /\ task[j].result = "raised"
          /\ task[k].result = "record"
          /\ k \in stored

\* C2: with N files dispatched and k of them failed, the collection handed
\* to the reduce stage, and the document index when it is written, hold
\* exactly N - k records.
C2_RecordCount ==
    pc # "map" =>
        /\ Len(documents) = Cardinality(Dispatched) - Cardinality(FailedTasks)
        /\ "document_info" \in DOMAIN outputs =>
              Len(outputs.document_info)
                  = Cardinality(Dispatched) - Cardinality(FailedTasks)

\* C3: for every non-empty collection of records the reduce stage runs to
\* its end and emits the hierarchy graph, the version groups, the document
\* index and the statistics.
C3_RunCompletes ==
    (pc # "map" /\ Len(documents) > 0) =>
        /\ pc = "returned"
        /\ {"hierarchy_json", "document_versions", "document_info",
            "processing_statistics"} \subseteq DOMAIN outputs

\* C4: every artifact file is one of the four files of the task that wrote
\* it, and no artifact file is written by two tasks.
C4_NoSharedOutput ==
    \A a \in DOMAIN written :
        /\ \A n \in 1..Len(written[a]) :
              \E k \in 1..Len(ArtifactKinds) :
                  a = ArtifactPath(k, DocId(written[a][n]))
        /\ Cardinality({written[a][n] : n \in 1..Len(written[a])}) <= 1

\* C5: the reduce stage starts only after every dispatched task has
\* completed or failed, and the documents collection changes only in a step
\* of the coordinator's collecting loop, never in a step of a worker.
C5_Barrier ==
    /\ [](pc # "map" =>
             \A i \in Dispatched : task[i].state \in {"finished", "consumed"})
    /\ [][documents' # documents =>
             /\ pc = "map"
             /\ \E i \in Dispatched :
                   /\ task[i].state = "finished"
                   /\ task'[i].state = "consumed"
                   /\ \A j \in Dispatched \ {i} : task'[j] = task[j]]_vars

\* C5 witness: the reduce stage has run over two collected records while a
\* third task had failed
C5_Witness ==
    /\ pc = "returned"
    /\ Len(documents) >= 2
    /\ FailedTasks # {}

\* the records of the stored files collected in discovery order
RECURSIVE CollectInOrder(_, _)
CollectInOrder(docs, n) ==
    IF n > Len(document_files) THEN docs
    ELSE CollectInOrder(
            IF document_files[n] \in stored
            THEN DictSet(docs, DocId(document_files[n]), DocInfo(document_files[n]))
            ELSE docs,
            n + 1)

\* the final artifacts of a run over docs, without the order of the lists
\* that an ordered dict gives them
FinalArtifacts(docs) ==
    LET r == ReduceResult(docs) IN
    [ended |-> r.pc,
     index |-> {docs[k] : k \in 1..Len(docs)},
     hierarchy |-> Get(r.outputs, "hierarchy_json", EmptyDict),
     versions |-> LET g == Get(r.outputs, "document_versions", <<>>)
                  IN {g[j] : j \in 1..Len(g)},
     statistics |-> Get(r.outputs, "processing_statistics", EmptyDict)]

\* C6: the final artifacts do not depend on the completion order: they are
\* those of the run that collects the same successful files in discovery
\* order.
C6_OrderIndependence ==
    pc # "map" => FinalArtifacts(documents) = FinalArtifacts(CollectInOrder(<<>>, 1))

Calls == {e \in log : e[1] = "call"}

\* C7: when no document was processed successfully, process_directory logs
\* the warning, writes no reduce artifact, calls neither the hierarchy
\* builder nor the version grouper, and returns the empty collection.
C7_EmptyCorpus ==
    (pc # "map" /\ Succeeded = {}) =>
        /\ pc = "returned"
        /\ documents = <<>>
        /\ DOMAIN outputs = {}
        /\ <<"warning", "no_documents", 0>> \in log
        /\ Calls = {}

\* C7 witness: two files were dispatched and both failed
C7_Witness ==
    /\ pc = "returned"
    /\ Len(document_files) >= 2
    /\ FailedTasks = Dispatched
    /\ \E i \in Dispatched : task[i].result = "raised"

\* the nodes of the graph when the k-th collected document is visited
NodesAtVisit(k) ==
    DOMAIN HierarchyLoop(model_legal_hierarchy(<<>>), SubSeq(documents, 1, k - 1), 1).nodes
        \cup {documents[k].id}

\* C9: in the emitted hierarchy graph every case document has the edge
\* target -> case for each citation of its text whose resolved target was a
\* node when the case was visited.
C9_InterpretsEdges ==
    "hierarchy_json" \in DOMAIN outputs =>
        \A k \in 1..Len(documents) : \A i \in stored :
            (documents[k].info = DocInfo(i) /\ documents[k].info.type = "case") =>
                LET refs == CrossReferences[i].references
                IN \A m \in 1..Len(refs) :
                      refs[m].target_document \in NodesAtVisit(k) =>
                          [source |-> refs[m].target_document, target |-> documents[k].id]
                              \in outputs.hierarchy_json.edges

\* the sum of the values of a function with a finite domain
RECURSIVE SumValues(_)
SumValues(f) ==
    IF DOMAIN f = {} THEN 0
    ELSE LET k == CHOOSE x \in DOMAIN f : TRUE
         IN f[k] + SumValues([x \in DOMAIN f \ {k} |-> f[x]])

\* C18: whenever statistics are emitted, total_documents is the number of
\* records of the emitted index, the counts by type and the counts by
\* language each sum to it, total_citations and total_cross_references are
\* the sums of the records' counts, and each reasoning total is the sum of
\* the records' counts of that category.
C18_StatisticsAgree ==
    "processing_statistics" \in DOMAIN outputs =>
        LET st == outputs.processing_statistics
            idx == outputs.document_info
            n == Len(idx)
        IN /\ st.total_documents = n
           /\ SumValues(st.document_types) = n
           /\ SumValues(st.languages) = n
           /\ st.total_citations = SumValues([i \in 1..n |-> idx[i].info.citation_count])
           /\ st.total_cross_references =
                 SumValues([i \in 1..n |-> idx[i].info.cross_references])
           /\ DOMAIN st.reasoning_patterns = ReasoningTypes
           /\ \A p \in ReasoningTypes :
                 st.reasoning_patterns[p] =
                    SumValues([i \in 1..n |-> Get(idx[i].info.reasoning_patterns, p, 0)])

\* statistics over three records of three types and two languages, the last
\* record with citations and reasoning matches
C18_Witness ==
    /\ "processing_statistics" \in DOMAIN outputs
    /\ Len(outputs.document_info) = 3
    /\ Cardinality(DOMAIN outputs.processing_statistics.document_types) = 3
    /\ Cardinality(DOMAIN outputs.processing_statistics.languages) = 2
    /\ outputs.document_info[3].info.citation_count > 0
    /\ outputs.processing_statistics.total_cross_references > 0
    /\ outputs.processing_statistics.reasoning_patterns["precedent_application"] > 0

\* the collected records of type act
ActDocuments == {i \in 1..Len(documents) : documents[i].info.type = "act"}

\* the groups of the emitted version-groups artifact holding the document id
EmittedGroupsOf(id) ==
    {j \in 1..Len(outputs.document_versions) :
        \E k \in 1..Len(outputs.document_versions[j].entries) :
            outputs.document_versions[j].entries[k].doc_id = id}

\* C27: in a run that collected act records, the version-groups artifact is
\* emitted, every entry carries the title and the date of its act, each group
\* is keyed by a base title, and two different acts of the tree (the act of
\* 2008 and the Banks act) fall into different groups.
C27_PipelineVersionGroups ==
    (pc # "map" /\ ActDocuments # {}) =>
        /\ "document_versions" \in DOMAIN outputs
        /\ \A j \in 1..Len(outputs.document_versions) :
              LET g == outputs.document_versions[j] IN
              /\ g.key # <<>>
              /\ \A k \in 1..Len(g.entries) :
                    g.entries[k].title # PyNone /\ g.entries[k].date # PyNone
        /\ \A a, b \in ActDocuments :
              a # b => EmittedGroupsOf(documents[a].id) \cap EmittedGroupsOf(documents[b].id) = {}

\* the artifact files that the task of file i has written
WrittenBy(i) ==
    {a \in DOMAIN written : \E n \in 1..Len(written[a]) : written[a][n] = i}

\* C28: a call of process_file that returned no record has written none of
\* the four artifact files of its document ID; a call that returned a record
\* has written all four.
C28_AllOrNothing ==
    \A i \in Dispatched :
        /\ (task[i].state \in {"finished", "consumed"} /\ task[i].result = "none")
              => WrittenBy(i) = {}
        /\ (task[i].state \in {"finished", "consumed"} /\ task[i].result = "record")
              => WrittenBy(i) = {ArtifactPath(k, DocId(i)) : k \in 1..Len(ArtifactKinds)}

\* ------------------------------------------------------------------------
\* Properties of process_temporal_versioning (SpecVersions)
\* ------------------------------------------------------------------------

ActRecs(d) == {i \in 1..Len(d) : Get(d[i].info, "type", "") = "act"}

Undated(d) == {i \in ActRecs(d) : "date" \notin DOMAIN d[i].info}

\* entries is in ascending date order, entries of one date in input order
AscendingStable(d, entries) ==
    \A k \in 1..(Len(entries) - 1) :
        \/ StrLess(entries[k].date, entries[k + 1].date, 1)
        \/ /\ entries[k].date = entries[k + 1].date
           /\ IndexOf(d, entries[k].doc_id, 1) < IndexOf(d, entries[k + 1].doc_id, 1)

\* the spec's example: "Banks Act" of 2015, "Banks Act Amendment" of 2017,
\* "Banks Act" of 1990
BanksExample ==
    << [id |-> "d1", info |-> [type |-> "act", title |-> <<"Banks", "Act">>,
                                date |-> <<2, 0, 1, 5>>]],
       [id |-> "d2", info |-> [type |-> "act", title |-> <<"Banks", "Act", "Amendment">>,
                                date |-> <<2, 0, 1, 7>>]],
       [id |-> "d3", info |-> [type |-> "act", title |-> <<"Banks", "Act">>,
                                date |-> <<1, 9, 9, 0>>]] >>

\* C16: when every act record carries a date string, the call returns, each
\* group holds every act record of its base title once, ordered by ascending
\* lexicographic date, records of one date in input order; the example
\* yields the single group "Banks Act" ordered 1990, 2015, 2017.
C16_VersionOrdering ==
    (call = "process_temporal_versioning" /\ ret # <<>> /\ Undated(arg) = {}) =>
        /\ ~ret[1].raised
        /\ \A j \in 1..Len(ret[1].groups) :
             LET g == ret[1].groups[j] IN
             /\ AscendingStable(arg, g.entries)
             /\ {g.entries[k].doc_id : k \in 1..Len(g.entries)} =
                   {arg[i].id : i \in {a \in ActRecs(arg) :
                        BaseTitle(Get(arg[a].info, "title", <<>>)) = g.key}}
             /\ Len(g.entries) = Cardinality({g.entries[k].doc_id : k \in 1..Len(g.entries)})
        /\ arg = BanksExample =>
             /\ Len(ret[1].groups) = 1
             /\ ret[1].groups[1].key = <<"Banks", "Act">>
             /\ [k \in 1..3 |-> ret[1].groups[1].entries[k].doc_id] = <<"d3", "d1", "d2">>

\* three dated acts of one base title, handed over out of date order and
\* two of them with the same date
C16_Witness ==
    /\ call = "process_temporal_versioning" /\ ret # <<>> /\ Undated(arg) = {}
    /\ ~ret[1].raised
    /\ \E j \in 1..Len(ret[1].groups) :
         LET e == ret[1].groups[j].entries IN
         /\ Len(e) = 3
         /\ e[1].date = e[2].date
         /\ IndexOf(arg, e[3].doc_id, 1) = 1

\* C17: a group with one or more undated records (alone, with other undated
\* records, or mixed with dated ones) is returned without error, the undated
\* records first and in input order.
C17_MissingDatesFirst ==
    (call = "process_temporal_versioning" /\ ret # <<>> /\ Undated(arg) # {}) =>
        /\ ~ret[1].raised
        /\ \A j \in 1..Len(ret[1].groups) :
             LET e == ret[1].groups[j].entries IN
             \A k \in 1..(Len(e) - 1) :
                 /\ e[k + 1].date = PyNone => e[k].date = PyNone
                 /\ (e[k].date = PyNone /\ e[k + 1].date = PyNone)
                       => IndexOf(arg, e[k].doc_id, 1) < IndexOf(arg, e[k + 1].doc_id, 1)

\* the normalized base title of each title handed over, read by hand
NormalTitle(info) ==
    IF "title" \notin DOMAIN info THEN <<>>
    ELSE IF info.title = <<"Banks", "Act", "Amendment">> THEN <<"Banks", "Act">>
    ELSE info.title

\* the groups of the result that hold an entry of the record i of arg
GroupsHolding(i) ==
    {j \in 1..Len(ret[1].groups) :
        \E k \in 1..Len(ret[1].groups[j].entries) :
            ret[1].groups[j].entries[k].doc_id = arg[i].id}

\* C26: for every input record set the version groups are returned, every
\* act record appears in exactly one group, once, and every other record in
\* none; the key of a record's group is its title without the trailing
\* "Amendment", so all entries of a group share the normalized base title.
C26_GroupsPartition ==
    (call = "process_temporal_versioning" /\ ret # <<>>) =>
        /\ ~ret[1].raised
        /\ \A i \in 1..Len(arg) :
              IF i \in ActRecs(arg)
              THEN /\ Cardinality(GroupsHolding(i)) = 1
                   /\ \A j \in GroupsHolding(i) :
                        /\ ret[1].groups[j].key = NormalTitle(arg[i].info)
                        /\ Cardinality({k \in 1..Len(ret[1].groups[j].entries) :
                              ret[1].groups[j].entries[k].doc_id = arg[i].id}) = 1
              ELSE GroupsHolding(i) = {}

\* ------------------------------------------------------------------------
\* Properties of extract_text_from_pdf (SpecPdf)
\* ------------------------------------------------------------------------

\* what each method yields on the file on its own
PrimaryYield == IF arg.fitz.open = Raises THEN Raises ELSE FitzText(arg.fitz.pages, 1, "")
SecondYield == IF arg.pypdf2.open = Raises THEN Raises ELSE PyPDF2Text(arg.pypdf2.pages, 1, "")

\* C19: the second method is invoked exactly when the primary method throws
\* or returns empty text, and the result is empty only if both methods fail
\* or yield nothing.
C19_PdfFallback ==
    (call = "extract_text_from_pdf" /\ ret # <<>>) =>
        /\ (Len(ret[1].methods) = 2) <=> (PrimaryYield \in {Raises, ""})
        /\ ret[1].text = "" =>
              (PrimaryYield \in {Raises, ""} /\ SecondYield \in {Raises, ""})

\* ------------------------------------------------------------------------
\* Properties of identify_target_document (SpecResolve)
\* ------------------------------------------------------------------------

\* the act citation c reads "Act [No.] N of YYYY": the word Act in any case,
\* whitespace, optionally "No." and whitespace, a number, " of " and a year
\* of four digits or more
ActForm(c) ==
    /\ LowerCase(c.kw) = <<"a", "c", "t">>
    /\ c.ws1 # <<>>
    /\ c.no \in {<<>>, <<"N", "o", ".", " ">>, <<"N", "o", ".">>}
    /\ c.num # <<>>
    /\ c.ws2 # <<>>
    /\ c.ofw = <<"o", "f">>
    /\ Len(c.year) >= 4

\* the case citation c reads "YYYY (V) REPORTER P (COURT)"
CaseForm(c) ==
    /\ Len(c.year) >= 4
    /\ c.vol # <<>>
    /\ c.reporter \in {<<"S", "A">>, <<"B", "C", "L", "R">>}
    /\ c.page # <<>>
    /\ c.court = <<"(", "S", "C", "A", ")">>

ActId(year, num) == <<"act_" \o ToStr(year) \o "_" \o ToStr(num)>>

CaseId(year, reporter, court) ==
    <<"case_" \o ToStr(year) \o "_" \o ToStr(reporter) \o "_" \o ToStr(court)>>

Category(k) ==
    CASE k \in 1..3 -> "case citation"
      [] k \in 4..5 -> "act citation"
      [] k \in 6..7 -> "section reference"
      [] k \in 8..9 -> "constitutional reference"
      [] OTHER -> "notice reference"

\* what each passage holds, read by hand: <<pattern, start, end>> of every
\* citation in it, offsets 0-based from the start of the passage
PassageCitations ==
    << {<<4, 0, 17>>},
       {<<5, 0, 13>>},
       {<<1, 0, 18>>, <<7, 10, 14>>},
       {<<1, 0, 21>>, <<3, 0, 16>>},
       {<<6, 0, 13>>},
       {<<7, 0, 7>>},
       {<<8, 0, 12>>, <<9, 0, 14>>},
       {<<10, 0, 5>>},
       {<<11, 0, 5>>},
       {},
       {<<2, 0, 21>>} >>

\* the offset of the j-th passage of ps in its text
RECURSIVE PassageOffset(_, _)
PassageOffset(ps, j) ==
    IF j = 1 THEN 0 ELSE PassageOffset(ps, j - 1) + Len(Passages[ps[j - 1]])

\* every citation of every passage of ps, at its offset in the text
CitationsWritten(ps) ==
    UNION {{<<c[1], c[2] + PassageOffset(ps, j), c[3] + PassageOffset(ps, j)>> :
               c \in PassageCitations[ps[j]]} : j \in 1..Len(ps)}

\* C13: the records are exactly the citations written in the text, one
\* record for each pattern and match: none is missing, merged or repeated,
\* also where the spans of two categories overlap; each record carries its
\* own offsets, matched text, pattern and the document ID.
C13_NoDedup ==
    (call = "process_citations" /\ ret # <<>>) =>
        LET recs == ret[1]
            text == PassageText(arg)
        IN /\ {<<recs[i].pattern_type, recs[i].start, recs[i].end>> : i \in 1..Len(recs)}
                 = CitationsWritten(arg)
           /\ Len(recs) = Cardinality(CitationsWritten(arg))
           /\ \A i \in 1..Len(recs) :
                 /\ recs[i].text = SubSeq(text, recs[i].start + 1, recs[i].end)
                 /\ recs[i].document_id = "doc"

\* two records of different categories with overlapping spans
C13_Witness ==
    /\ call = "process_citations" /\ ret # <<>>
    /\ \E i, j \in 1..Len(ret[1]) :
          /\ Category(ret[1][i].pattern_type) = "case citation"
          /\ Category(ret[1][j].pattern_type) = "section reference"
          /\ ret[1][i].start < ret[1][j].end
          /\ ret[1][j].start < ret[1][i].end

\* C25: for each of the five categories, no two records emitted for that
\* category have overlapping [start, end) spans.
C25_NoOverlapInCategory ==
    (call = "process_citations" /\ ret # <<>>) =>
        LET recs == ret[1] IN
        \A i, j \in 1..Len(recs) :
            (i # j /\ Category(recs[i].pattern_type) = Category(recs[j].pattern_type))
            => \/ recs[i].end <= recs[j].start
               \/ recs[j].end <= recs[i].start

\* ------------------------------------------------------------------------
\* Properties of detect_language (SpecLanguage)
\* ------------------------------------------------------------------------

\* the scores of the languages on the sample of the argument
ArgScores ==
    language_scores(LowerCase(SubSeq(LanguageText(arg), 1,
        IF Len(LanguageText(arg)) < SampleLen THEN Len(LanguageText(arg))
        ELSE SampleLen)))

\* the languages that have the greatest score
TopLanguages ==
    {ArgScores[k].lang : k \in {j \in 1..Len(ArgScores) :
        \A i \in 1..Len(ArgScores) : ArgScores[i].score <= ArgScores[j].score}}

\* C14: when two or more languages share the top score, or every score is
\* zero, the result is the baseline "en"; a language other than "en" is
\* returned only when its score is strictly greater than every other.
C14_TiesDefault ==
    (call = "detect_language" /\ ret # <<>>) =>
        /\ Cardinality(TopLanguages) >= 2 => ret[1] = "en"
        /\ ret[1] # "en" => TopLanguages = {ret[1]}

\* ------------------------------------------------------------------------
\* Properties of analyze_document_structure (SpecStructure)
\* ------------------------------------------------------------------------

\* what each sample line is, read by hand: blank or not, its text without
\* the surrounding whitespace, and its role
LinesRead ==
    << [blank |-> FALSE, text |-> <<"C", "H", "A", "P", "T", "E", "R", " ", "1">>,
        type |-> "heading"],
       [blank |-> FALSE, text |-> <<"1", ".", " ", "D", "e", "f", "i", "n", "i", "t", "i", "o", "n", "s">>,
        type |-> "section"],
       [blank |-> FALSE, text |-> <<"(", "a", ")", " ", "t", "h", "e", " ", "o", "w", "n", "e", "r">>,
        type |-> "section"],
       [blank |-> FALSE, text |-> <<"a", ".", " ", "i", "t", "e", "m">>,
        type |-> "paragraph"],
       [blank |-> FALSE, text |-> <<"(", "i", "v", ")", " ", "p", "a", "r", "t">>,
        type |-> "subparagraph"],
       [blank |-> FALSE, text |-> <<"\"", "a", "c", "t", "\"", " ", "m", "e", "a", "n", "s", " ", "l", "a", "w">>,
        type |-> "definition"],
       [blank |-> FALSE, text |-> <<"|", " ", "c", "o", "l", " ", "|">>,
        type |-> "table_header"],
       [blank |-> FALSE, text |-> <<Bullet, " ", "p", "o", "i", "n", "t">>,
        type |-> "list_item"],
       [blank |-> FALSE, text |-> <<"P", "R", "E", "A", "M", "B", "L", "E", " ", "t", "o", " ", "a", "c", "t">>,
        type |-> "preamble"],
       [blank |-> FALSE, text |-> <<"E", "N", "D", " ", "N", "O", "T", "E", "S", " ", "x">>,
        type |-> "endnote"],
       [blank |-> FALSE, text |-> <<"p", "l", "a", "i", "n", " ", "t", "e", "x", "t">>,
        type |-> "text"],
       [blank |-> TRUE, text |-> <<>>, type |-> ""],
       [blank |-> TRUE, text |-> <<>>, type |-> ""],
       [blank |-> FALSE, text |-> <<"1", "2", ".", " ", "i", "n", "d", "e", "n", "t", "e", "d">>,
        type |-> "section"],
       [blank |-> FALSE, text |-> <<"P", "R", "E", "A", "M", "B", "L", "E">>,
        type |-> "heading"] >>

\* the 0-based numbers of the lines of ls that are not blank
NonBlank(ls) == {j \in 0..(Len(ls) - 1) : ~LinesRead[ls[j + 1]].blank}

\* the places in the list of the patterns that match the line
MatchingTypes(line) ==
    {k \in 1..Len(structure_patterns) : re_match(structure_patterns[k].pattern, line) # <<>>}

\* C15: the elements are one per non-blank line and none for a blank line,
\* in line order, the line numbers strictly increasing and equal to the
\* 0-based index of the line in the split; each element has the role of the
\* first pattern of the list that matches its line, "text" when none does.
C15_OneRolePerLine ==
    (call = "analyze_document_structure" /\ ret # <<>>) =>
        LET e == ret[1].elements IN
        /\ Len(e) = Cardinality(NonBlank(arg))
        /\ {e[k].line_number : k \in 1..Len(e)} = NonBlank(arg)
        /\ \A k \in 1..(Len(e) - 1) : e[k].line_number < e[k + 1].line_number
        /\ \A k \in 1..Len(e) :
              LET read == LinesRead[arg[e[k].line_number + 1]]
                  m == MatchingTypes(e[k].text)
              IN /\ e[k].text = read.text
                 /\ e[k].type = read.type
                 /\ m = {} => e[k].type = "text"
                 /\ m # {} =>
                       e[k].type = structure_patterns[CHOOSE x \in m :
                                       \A y \in m : x <= y].type

\* a blank line, then a line that two patterns match
C15_Witness ==
    /\ call = "analyze_document_structure" /\ ret # <<>>
    /\ Len(arg) = 2 /\ LinesRead[arg[1]].blank
    /\ Len(ret[1].elements) = 1
    /\ ret[1].elements[1].line_number = 1
    /\ Cardinality(MatchingTypes(ret[1].elements[1].text)) = 2

\* ------------------------------------------------------------------------
\* Properties of infer_document_type (SpecType)
\* ------------------------------------------------------------------------

\* the hint substrings written in a piece of a path, read by hand
HintsIn(piece) ==
    CASE piece = <<>> -> {}
      [] piece = <<"A", "c", "t", "-", "C", "o", "l", "l", "e", "c", "t", "i", "o", "n", "/", "o", "u", "t">> ->
            {"act"}
      [] piece = <<"c", "a", "s", "e", "_", "l", "a", "w">> ->
            {"case_law"}
      [] piece = <<"c", "o", "r", "e", "_", "l", "e", "g", "i", "s", "l", "a", "t", "i", "o", "n">> ->
            {"core_legislation"}
      [] piece = <<"r", "e", "g", "u", "l", "a", "t", "i", "o", "n", "s">> ->
            {"regulation"}
      [] piece = <<"p", "r", "o", "v", "i", "n", "c", "i", "a", "l">> ->
            {"provincial"}
      [] piece = <<"m", "u", "n", "i", "c", "i", "p", "a", "l">> ->
            {"municipal"}
      [] piece = <<"c", "o", "n", "t", "r", "a", "c", "t">> ->
            {"act"}
      [] piece = <<"C", "o", "n", "s", "t", "i", "t", "u", "t", "i", "o", "n", "_", "c", "h", "2">> ->
            {"constitution"}
      [] piece = <<"j", "u", "d", "g", "m", "e", "n", "t", "_", "1", "2">> ->
            {"judgment"}
      [] piece = <<"b", "y", "l", "a", "w", "_", "3">> ->
            {"bylaw"}
      [] OTHER -> {}

PathHints(p) == HintsIn(p.root) \cup HintsIn(p.dir) \cup HintsIn(p.name) \cup HintsIn(p.ext)

\* the rules in the order they are tried: the hints of each and its type
TypeRules ==
    << [hints |-> {"constitution"}, type |-> "constitution"],
       [hints |-> {"core_legislation", "act"}, type |-> "act"],
       [hints |-> {"case_law", "judgment"}, type |-> "case"],
       [hints |-> {"regulation"}, type |-> "regulation"],
       [hints |-> {"provincial"}, type |-> "provincial_legislation"],
       [hints |-> {"municipal", "bylaw"}, type |-> "municipal_bylaw"] >>

\* the rules that have a hint written somewhere in the path
RulesWritten(p) == {k \in 1..Len(TypeRules) : TypeRules[k].hints \cap PathHints(p) # {}}

\* the type the directory of the path stands for
DirectoryType(p) ==
    CASE p.dir = <<"c", "a", "s", "e", "_", "l", "a", "w">> -> "case"
      [] p.dir = <<"c", "o", "r", "e", "_", "l", "e", "g", "i", "s", "l", "a", "t", "i", "o", "n">>
            -> "act"
      [] p.dir = <<"r", "e", "g", "u", "l", "a", "t", "i", "o", "n", "s">> -> "regulation"
      [] p.dir = <<"p", "r", "o", "v", "i", "n", "c", "i", "a", "l">> -> "provincial_legislation"
      [] p.dir = <<"m", "u", "n", "i", "c", "i", "p", "a", "l">> -> "municipal_bylaw"
      [] OTHER -> "none"

\* C20 (as stated): every path gets one of the seven types; a file under
\* case_law, core_legislation, regulations, provincial or municipal gets the
\* type of that directory whatever the file name and the other segments are;
\* a path with none of the hint substrings is typed unknown.
C20_AsStated ==
    (call = "infer_document_type" /\ ret # <<>>) =>
        /\ ret[1] \in {"constitution", "act", "case", "regulation",
                       "provincial_legislation", "municipal_bylaw", "unknown"}
        /\ DirectoryType(arg) # "none" => ret[1] = DirectoryType(arg)
        /\ RulesWritten(arg) = {} => ret[1] = "unknown"

\* ------------------------------------------------------------------------
\* Properties of the discovery and the limit (SpecDiscover)
\* ------------------------------------------------------------------------

\* the names of the tree that carry a supported extension, read by hand
SupportedNames ==
    {<<"a", ".", "p", "d", "f">>,
     <<"b", ".", "T", "X", "T">>,
     <<"d", ".", "d", "o", "c", "x">>,
     <<"f", ".", "h", "t", "m">>}

\* N: the files of the tree with a supported extension
SupportedCount == Cardinality({i \in 1..Len(arg.files) : arg.files[i] \in SupportedNames})

\* C21: given a limit L >= 0 (0 included) and N files with supported
\* extensions, exactly min(L, N) tasks are dispatched; with no limit exactly
\* N; a file whose extension is not supported is never dispatched.
C21_FileLimit ==
    (call = "process_directory" /\ ret # <<>>) =>
        LET L == arg.max_files.value
            N == SupportedCount
        IN
        /\ ~arg.max_files.given => Len(ret[1]) = N
        /\ (arg.max_files.given /\ L >= 0) => Len(ret[1]) = (IF L < N THEN L ELSE N)
        /\ \A k \in 1..Len(ret[1]) :
              \E i \in 1..Len(arg.files) :
                 /\ arg.files[i] \in SupportedNames
                 /\ ret[1][k] = arg.directory \o <<"/">> \o arg.files[i]

\* ------------------------------------------------------------------------
\* Properties of the roles (SpecRoles)
\* ------------------------------------------------------------------------

\* the place of a role in the ordered list of the patterns
PlaceOf(type) == CHOOSE k \in 1..Len(structure_patterns) : structure_patterns[k].type = type

\* C30: no line of any text gets the role subsection or footnote: every
\* stripped line that matches one of these two patterns also matches the
\* heading or the section pattern, which come first; every element has a
\* role in heading, section, paragraph, subparagraph, definition,
\* table_header, list_item, preamble, endnote, text.
C30_ShadowedRoles ==
    (call = "analyze_document_structure" /\ ret # <<>>) =>
        \A k \in 1..Len(ret[1].elements) :
            LET e == ret[1].elements[k]
                m == MatchingTypes(e.text)
            IN /\ e.type \notin {"subsection", "footnote"}
               /\ e.type \in {"heading", "section", "paragraph", "subparagraph",
                              "definition", "table_header", "list_item", "preamble",
                              "endnote", "text"}
               /\ (PlaceOf("subsection") \in m \/ PlaceOf("footnote") \in m)
                     => (PlaceOf("heading") \in m \/ PlaceOf("section") \in m)

\* C30 witness: a line that the footnote pattern matches got the role section
C30_Witness ==
    /\ call = "analyze_document_structure" /\ ret # <<>>
    /\ arg = <<"1", ".", " ", "a">>
    /\ Len(ret[1].elements) = 1
    /\ PlaceOf("footnote") \in MatchingTypes(ret[1].elements[1].text)
    /\ ret[1].elements[1].type = "section"

====
